---- MODULE Spec2Model ----
(***************************************************************************)
(* Model of backend/ai_generator.py: AIGenerator.generate_response, the    *)
(* round loop that talks to the model service, decides whether to go on,   *)
(* runs the requested tools through the tool manager and extracts the      *)
(* final answer; and of backend/search_tools.py: the ToolManager (the tool  *)
(* registry) and the two course tools with their stored sources.            *)
(*                                                                         *)
(* A text is a sequence of tokens; the tokens of Whitespace are blank.  A   *)
(* response is [stop_reason, content], content a sequence of blocks.       *)
(***************************************************************************)
EXTENDS Integers, Sequences, FiniteSets, TLC

VARIABLES
    pc,             \* position of the generate_response invocation
    max_rounds_arg, \* the max_rounds argument as passed (None: omitted)
    max_rounds,     \* parameter max_rounds
    tools,          \* parameter tools (None or a list of declarations)
    tool_manager,   \* parameter tool_manager (None or a manager)
    messages,       \* local messages
    current_round,  \* local current_round
    response,       \* local response (NoResponse: not yet bound)
    tool_used,      \* local tool_used
    block_idx,      \* _execute_tools: position of the for loop
    tool_results,   \* _execute_tools: local tool_results
    result,         \* value returned by generate_response
    api_calls,      \* the requests received by client.messages.create
    exec_log,       \* the calls received by tool_manager.execute_tool
    conversation_history, \* parameter conversation_history (None or a text)
    system_content, \* local system_content
    sharing,        \* how concurrent requests use ToolManagers
    lock,           \* the request holding the callers' lock, or 0
    frames,         \* the locals of each of the concurrent invocations
    manager_tools,  \* ToolManager.tools: the dict, as its items in dict order
    last_sources,   \* the last_sources attribute of every tool that has one
    last_call,      \* the latest call of a ToolManager method, with its result
    last_recorded,  \* the sources stored by the latest execute_tool (None: none)
    reg_log,        \* the tools registered so far, in the order of the calls
    cleared         \* reset_sources ran and no execution stored sources since

genvars == <<pc, max_rounds_arg, max_rounds, tools, tool_manager, messages,
             current_round, response, tool_used, block_idx, tool_results,
             result, api_calls, exec_log, conversation_history,
             system_content>>

sysvars == <<conversation_history, system_content>>

concvars == <<sharing, lock, frames>>

regvars == <<manager_tools, last_sources, last_call, last_recorded, reg_log,
             cleared>>

vars == <<pc, max_rounds_arg, max_rounds, tools, tool_manager, messages,
          current_round, response, tool_used, block_idx, tool_results,
          result, api_calls, exec_log, conversation_history, system_content,
          sharing, lock, frames,
          manager_tools, last_sources, last_call, last_recorded, reg_log,
          cleared>>

\* ------------------------------------------------------------------ bounds
MaxBudget == 2
MaxBlocks == 2
MaxRegistrations == 3

\* --------------------------------------------------------------- constants
DefaultMaxRounds == 2

\* an optional value is None or Some(v)
None == <<>>
Some(v) == <<v>>
Value(o) == o[1]

Query == "What is Python?"
SampleTools == "search_course_content"
Manager == "tool_manager"

\* value of result while generate_response has not returned
NotReturned == <<"<no value>">>

Whitespace == {" ", "\t", "\n"}

FallbackMessage ==
    <<"I apologize, but I was unable to generate a complete response. Please try rephrasing your question.">>

NoResponse == [stop_reason |-> "unbound", content |-> <<>>]

\* ------------------------------------------------------------------ inputs
Budgets == (-1)..MaxBudget

Texts == { <<" ">>, <<"a">>, <<" ", "b">> }

TextBlocks == { [type |-> "text", text |-> t] : t \in Texts }

\* the tool_use block at position i of the response of round r; the model
\* service gives every tool_use block a correlation id of its own
ToolUseBlock(r, i) ==
    [type |-> "tool_use", name |-> "search_course_content",
     input |-> [query |-> <<r, i>>], id |-> <<"call", r, i>>]

ContentsOfLength(r, n) ==
    { c \in [1..n -> TextBlocks \cup { ToolUseBlock(r, i) : i \in 1..n }] :
        \A i \in 1..n : c[i].type = "tool_use" => c[i] = ToolUseBlock(r, i) }

Contents(r) == UNION { ContentsOfLength(r, n) : n \in 0..MaxBlocks }

StopReasons == { "tool_use", "end_turn" }

\* the responses the model service may give in round r
Responses(r) ==
    { [stop_reason |-> s, content |-> c] : s \in StopReasons, c \in Contents(r) }

\* what tool_manager.execute_tool does: it returns a text or raises
ToolOutcomes ==
    { [kind |-> "return", text |-> <<"Mock tool result">>],
      [kind |-> "raise", text |-> <<"Tool failed">>] }

\* ------------------------------------------------------------ str.strip()
RECURSIVE LStrip(_)
LStrip(t) ==
    IF t = <<>> THEN <<>>
    ELSE IF Head(t) \in Whitespace THEN LStrip(Tail(t)) ELSE t

RECURSIVE RStrip(_)
RStrip(t) ==
    IF t = <<>> THEN <<>>
    ELSE IF t[Len(t)] \in Whitespace THEN RStrip(SubSeq(t, 1, Len(t) - 1)) ELSE t

Strip(t) == RStrip(LStrip(t))

\* truth value of a Python str
Truthy(t) == t # <<>>

\* ----------------------------------------------- _should_continue_rounds
has_text(resp) ==
    \E i \in 1..Len(resp.content) :
        resp.content[i].type = "text" /\ Truthy(Strip(resp.content[i].text))

has_tools(resp) ==
    \E i \in 1..Len(resp.content) : resp.content[i].type = "tool_use"

ShouldContinueOffByOne(resp, cur, max) ==
    IF cur > max THEN FALSE
    ELSE IF resp.stop_reason # "tool_use" THEN FALSE
    ELSE IF has_text(resp) /\ has_tools(resp) THEN FALSE
    ELSE has_tools(resp)

ShouldContinueTextOrTools(resp, cur, max) ==
    IF cur >= max THEN FALSE
    ELSE IF resp.stop_reason # "tool_use" THEN FALSE
    ELSE IF has_text(resp) \/ has_tools(resp) THEN FALSE
    ELSE has_tools(resp)

ShouldContinueAlwaysTrue(resp, cur, max) ==
    IF cur >= max THEN FALSE
    ELSE IF resp.stop_reason # "tool_use" THEN FALSE
    ELSE IF has_text(resp) /\ has_tools(resp) THEN FALSE
    ELSE TRUE

ShouldContinueIgnoringText(resp, cur, max) ==
    IF cur >= max THEN FALSE
    ELSE IF resp.stop_reason # "tool_use" THEN FALSE
    ELSE has_tools(resp)

_should_continue_rounds(resp, cur, max) ==
    IF cur >= max THEN FALSE
    ELSE IF resp.stop_reason # "tool_use" THEN FALSE
    ELSE IF has_text(resp) /\ has_tools(resp) THEN FALSE
    ELSE has_tools(resp)

\* ----------------------------------------------- _extract_final_response
RECURSIVE ExtractFrom(_, _)
ExtractFrom(content, i) ==
    IF i > Len(content) THEN FallbackMessage
    ELSE IF content[i].type = "text" /\ Truthy(Strip(content[i].text))
         THEN content[i].text
         ELSE ExtractFrom(content, i + 1)

RECURSIVE ExtractStrippedFrom(_, _)
ExtractStrippedFrom(content, i) ==
    IF i > Len(content) THEN FallbackMessage
    ELSE IF content[i].type = "text" /\ Truthy(Strip(content[i].text))
         THEN Strip(content[i].text)
         ELSE ExtractStrippedFrom(content, i + 1)

ExtractStripped(resp) == ExtractStrippedFrom(resp.content, 1)

RECURSIVE ExtractLastFrom(_, _)
ExtractLastFrom(content, i) ==
    IF i < 1 THEN FallbackMessage
    ELSE IF content[i].type = "text" /\ Truthy(Strip(content[i].text))
         THEN content[i].text
         ELSE ExtractLastFrom(content, i - 1)

ExtractLast(resp) == ExtractLastFrom(resp.content, Len(resp.content))

_extract_final_response(resp) == ExtractFrom(resp.content, 1)

\* -------------------------------------------------------- _execute_tools
ToolErrorContentNoDescription(description) == <<"Tool execution error: ">>

ToolErrorContent(description) == <<"Tool execution error: ">> \o description

ToolResult(block, outcome) ==
    [type |-> "tool_result",
     tool_use_id |-> block.id,
     content |-> IF outcome.kind = "return" THEN outcome.text
                 ELSE ToolErrorContent(outcome.text)]

\* ========================================================= search_tools.py
\* ------------------------------------------------------------ tool objects
\* two CourseSearchTool instances, a CourseOutlineTool, a Tool that has no
\* last_sources attribute, and two tools whose definition lacks a usable name
ToolObjects ==
    { "search_1", "search_2", "outline_1", "plain_1", "no_name", "empty_name" }

\* the value of dict.get for a missing key
PyNone == "<None>"

get_tool_definition(t) ==
    CASE t \in {"search_1", "search_2"} ->
            [name |-> "search_course_content",
             description |-> "Search course materials with smart course name matching and lesson filtering"]
      [] t = "outline_1" ->
            [name |-> "get_course_outline",
             description |-> "Get complete course outline including title, course link, and all lessons"]
      [] t = "plain_1" -> [name |-> "plain_tool", description |-> "A tool"]
      [] t = "empty_name" -> [name |-> "", description |-> "A tool"]
      [] OTHER -> [description |-> "A tool"]

\* tool_def.get("name")
DefGetName(tool_def) ==
    IF "name" \in DOMAIN tool_def THEN tool_def.name ELSE PyNone

\* not tool_name
Falsy(tool_name) == tool_name = PyNone \/ tool_name = ""

\* hasattr(tool, "last_sources")
HasLastSources(t) == t \in {"search_1", "search_2", "outline_1"}

SourceTools == { t \in ToolObjects : HasLastSources(t) }

\* last_sources = [] in the constructors
NoSources == [t \in SourceTools |-> <<>>]

\* ---------------------------------------------- the retrieval backend
NumStr(n) ==
    CASE n = 0 -> "0" [] n = 1 -> "1" [] n = 2 -> "2" [] n = 3 -> "3"
      [] n = 4 -> "4" [] n = -1 -> "-1" [] OTHER -> "n"

\* search(): an error indicator, or (document, metadata) pairs
ErrorResults ==
    [error |-> Some(<<"Search error">>), documents |-> <<>>, metadata |-> <<>>]

EmptyResults == [error |-> None, documents |-> <<>>, metadata |-> <<>>]

IntroResults ==
    [error |-> None,
     documents |-> << <<"A variable stores a value.">> >>,
     metadata |-> << [course_title |-> Some("Intro"), lesson_number |-> Some(1)] >>]

MixedResults ==
    [error |-> None,
     documents |-> << <<"Welcome.">>, <<"More.">>, <<"Types.">> >>,
     metadata |-> << [course_title |-> Some("Intro"), lesson_number |-> Some(0)],
                     [course_title |-> None, lesson_number |-> Some(2)],
                     [course_title |-> Some("Advanced"), lesson_number |-> None] >>]

SearchOutcomes == { ErrorResults, EmptyResults, IntroResults, MixedResults }

\* get_lesson_link(course_title, lesson_number): a URL or None
get_lesson_link(course_title, lesson_number) ==
    IF course_title = "Intro" /\ lesson_number = 1
    THEN Some("https://example.com/intro/1")
    ELSE IF course_title = "unknown" /\ lesson_number = 2
    THEN Some("https://example.com/unknown/2")
    ELSE None

\* get_all_courses_metadata()
Catalog ==
    << [title |-> "Intro", instructor |-> "Ann",
        course_link |-> Some("https://example.com/intro"),
        lessons |-> << [lesson_number |-> 0, lesson_title |-> "Welcome"],
                       [lesson_number |-> 1, lesson_title |-> "Variables"] >>],
       [title |-> "Advanced", instructor |-> "",
        course_link |-> None,
        lessons |-> <<>>] >>

\* get_existing_course_titles()
get_existing_course_titles == [i \in 1..Len(Catalog) |-> Catalog[i].title]

\* _resolve_course_name(): a canonical title or None
ResolveOutcomes == { None, Some("Intro"), Some("Advanced"), Some("Ghost") }

\* ------------------------------------------------------ str.join
RECURSIVE Join(_, _)
Join(parts, sep) ==
    IF parts = <<>> THEN <<>>
    ELSE IF Len(parts) = 1 THEN parts[1]
    ELSE parts[1] \o sep \o Join(Tail(parts), sep)

\* the result of a tool's execute: the text returned, the value assigned to
\* self.last_sources (None: no assignment), and the methods of self.store
\* that were called
Executed(text, stored, calls) == [ret |-> text, stored |-> stored, calls |-> calls]

\* ------------------------------------------------------ CourseSearchTool
SearchArgs ==
    { [query |-> "variable", course_name |-> None, lesson_number |-> None],
      [query |-> "variable", course_name |-> Some("Intro"), lesson_number |-> Some(0)] }

CourseTitleOf(meta) ==
    IF meta.course_title = None THEN "unknown" ELSE Value(meta.course_title)

HeaderOf(meta) ==
    <<"[", CourseTitleOf(meta)>>
    \o (IF meta.lesson_number # None
        THEN <<" - Lesson ", NumStr(Value(meta.lesson_number))>> ELSE <<>>)
    \o <<"]">>

\* the citation built without the test of the course title
SourceInfoOfAnyTitle(meta) ==
    LET course_title == CourseTitleOf(meta)
        lesson_num   == meta.lesson_number
        source_title == <<course_title>>
                        \o (IF lesson_num # None
                            THEN <<" - Lesson ", NumStr(Value(lesson_num))>> ELSE <<>>)
        lesson_url   == IF lesson_num # None
                        THEN get_lesson_link(course_title, Value(lesson_num))
                        ELSE None
    IN  IF lesson_url # None
        THEN [title |-> source_title, url |-> Value(lesson_url)]
        ELSE [title |-> source_title]

SourceInfoOf(meta) ==
    LET course_title == CourseTitleOf(meta)
        lesson_num   == meta.lesson_number
        source_title == <<course_title>>
                        \o (IF lesson_num # None
                            THEN <<" - Lesson ", NumStr(Value(lesson_num))>> ELSE <<>>)
        lesson_url   == IF lesson_num # None /\ course_title # "unknown"
                        THEN get_lesson_link(course_title, Value(lesson_num))
                        ELSE None
    IN  IF lesson_url # None
        THEN [title |-> source_title, url |-> Value(lesson_url)]
        ELSE [title |-> source_title]

\* the get_lesson_link calls of _format_results, one per passage that has a
\* lesson number and a course title
RECURSIVE LinkLookups(_)
LinkLookups(metadata) ==
    IF metadata = <<>> THEN <<>>
    ELSE (IF Head(metadata).lesson_number # None
             /\ CourseTitleOf(Head(metadata)) # "unknown"
          THEN <<"get_lesson_link">> ELSE <<>>)
         \o LinkLookups(Tail(metadata))

_format_results(results) ==
    LET n == Len(results.documents)
        formatted == [i \in 1..n |->
                        HeaderOf(results.metadata[i]) \o <<"\n">> \o results.documents[i]]
        sources == [i \in 1..n |-> SourceInfoOf(results.metadata[i])]
    IN  Executed(Join(formatted, <<"\n\n">>), Some(sources),
                 <<"search">> \o LinkLookups(results.metadata))

CourseSearchTool_execute(args, results) ==
    IF results.error # None THEN Executed(Value(results.error), None, <<"search">>)
    ELSE IF Len(results.documents) = 0
    THEN LET in_course == IF args.course_name # None
                          THEN <<" in course '", Value(args.course_name), "'">> ELSE <<>>
             in_lesson == IF args.lesson_number # None /\ Value(args.lesson_number) # 0
                          THEN <<" in lesson ", NumStr(Value(args.lesson_number))>> ELSE <<>>
         IN  Executed(<<"No relevant content found">> \o in_course \o in_lesson \o <<".">>,
                      None, <<"search">>)
    ELSE _format_results(results)

\* ----------------------------------------------------- CourseOutlineTool
OutlineArgs == { [course_title |-> "Intro"] }

\* the lines of the outline as _format_outline collects them
OutlinePartsInstructorAlways(course_data) ==
    LET title == course_data.title
        instructor == course_data.instructor
        course_link == course_data.course_link
        lessons == course_data.lessons
        lesson_lines == [i \in 1..Len(lessons) |->
                            <<"  ", NumStr(lessons[i].lesson_number), ". ",
                              lessons[i].lesson_title>>]
    IN  << <<"**", title, "**">> >>
        \o << <<"Instructor: ", instructor>> >>
        \o (IF course_link # None
            THEN << <<"Course Link: ", Value(course_link)>> >> ELSE <<>>)
        \o (IF Len(lessons) > 0
            THEN << <<"\n", "Lessons (", NumStr(Len(lessons)), " total):">> >>
                 \o lesson_lines
            ELSE << <<"\n", "No lessons found for this course.">> >>)

OutlineParts(course_data) ==
    LET title == course_data.title
        instructor == course_data.instructor
        course_link == course_data.course_link
        lessons == course_data.lessons
        lesson_lines == [i \in 1..Len(lessons) |->
                            <<"  ", NumStr(lessons[i].lesson_number), ". ",
                              lessons[i].lesson_title>>]
    IN  << <<"**", title, "**">> >>
        \o (IF instructor # "" THEN << <<"Instructor: ", instructor>> >> ELSE <<>>)
        \o (IF course_link # None
            THEN << <<"Course Link: ", Value(course_link)>> >> ELSE <<>>)
        \o (IF Len(lessons) > 0
            THEN << <<"\n", "Lessons (", NumStr(Len(lessons)), " total):">> >>
                 \o lesson_lines
            ELSE << <<"\n", "No lessons found for this course.">> >>)

\* a citation that names the course only
OutlineSourceBareTitle(course_data) ==
    IF course_data.course_link # None
    THEN [title |-> <<course_data.title>>, url |-> Value(course_data.course_link)]
    ELSE [title |-> <<course_data.title>>]

\* the citation _format_outline stores
OutlineSource(course_data) ==
    IF course_data.course_link # None
    THEN [title |-> <<course_data.title, " - Course Outline">>,
          url |-> Value(course_data.course_link)]
    ELSE [title |-> <<course_data.title, " - Course Outline">>]

_format_outline(course_data) ==
    Executed(Join(OutlineParts(course_data), <<"\n">>),
             Some(<<OutlineSource(course_data)>>),
             <<"_resolve_course_name", "get_all_courses_metadata">>)

\* execute fetching the catalog before it looks at the resolved title
CourseOutlineToolExecuteFetchFirst(args, resolved_title) ==
    IF resolved_title = None
    THEN Executed(<<"No course found matching '", args.course_title,
                    "'. Available courses: ">>
                  \o Join([i \in 1..Len(Catalog) |-> <<get_existing_course_titles[i]>>],
                          <<", ">>),
                  None,
                  <<"_resolve_course_name", "get_all_courses_metadata",
                    "get_existing_course_titles">>)
    ELSE IF \E i \in 1..Len(Catalog) : Catalog[i].title = Value(resolved_title)
    THEN _format_outline(
            Catalog[CHOOSE i \in 1..Len(Catalog) :
                        /\ Catalog[i].title = Value(resolved_title)
                        /\ \A j \in 1..(i - 1) : Catalog[j].title # Value(resolved_title)])
    ELSE Executed(<<"Course metadata not found for '", Value(resolved_title), "'">>,
                  None, <<"_resolve_course_name", "get_all_courses_metadata">>)

CourseOutlineTool_execute(args, resolved_title) ==
    IF resolved_title = None
    THEN Executed(<<"No course found matching '", args.course_title,
                    "'. Available courses: ">>
                  \o Join([i \in 1..Len(Catalog) |-> <<get_existing_course_titles[i]>>],
                          <<", ">>),
                  None,
                  <<"_resolve_course_name", "get_existing_course_titles">>)
    ELSE IF \E i \in 1..Len(Catalog) : Catalog[i].title = Value(resolved_title)
    THEN _format_outline(
            Catalog[CHOOSE i \in 1..Len(Catalog) :
                        /\ Catalog[i].title = Value(resolved_title)
                        /\ \A j \in 1..(i - 1) : Catalog[j].title # Value(resolved_title)])
    ELSE Executed(<<"Course metadata not found for '", Value(resolved_title), "'">>,
                  None, <<"_resolve_course_name", "get_all_courses_metadata">>)

\* ----------------------------------------------------------- ToolManager
\* the dict self.tools is the sequence of its items [name, tool]
InDict(dict, key) == \E i \in 1..Len(dict) : dict[i].name = key

DictGet(dict, key) == dict[CHOOSE i \in 1..Len(dict) : dict[i].name = key].tool

\* an assignment that keeps the value a known key already has
DictSetFirstWins(dict, key, value) ==
    IF InDict(dict, key) THEN dict
    ELSE Append(dict, [name |-> key, tool |-> value])

\* an assignment that moves a known key to the end
DictSetMoveToEnd(dict, key, value) ==
    LET Other(item) == item.name # key IN
    Append(SelectSeq(dict, Other), [name |-> key, tool |-> value])

\* self.tools[key] = value: a new key goes last, a known key keeps its place
DictSet(dict, key, value) ==
    IF InDict(dict, key)
    THEN [i \in 1..Len(dict) |->
            IF dict[i].name = key THEN [name |-> key, tool |-> value] ELSE dict[i]]
    ELSE Append(dict, [name |-> key, tool |-> value])

\* register_tool without the check of the name
RegisterToolUnchecked(dict, tool) ==
    [raised |-> FALSE,
     tools |-> DictSet(dict, DefGetName(get_tool_definition(tool)), tool)]

register_tool(dict, tool) ==
    LET tool_name == DefGetName(get_tool_definition(tool)) IN
    IF Falsy(tool_name)
    THEN [raised |-> TRUE, tools |-> dict]
    ELSE [raised |-> FALSE, tools |-> DictSet(dict, tool_name, tool)]

get_tool_definitions(dict) ==
    [i \in 1..Len(dict) |-> get_tool_definition(dict[i].tool)]

\* the arguments and the backend answers a call of the named tool can meet
ArgsFor(tool_name) ==
    IF tool_name = "get_course_outline" THEN OutlineArgs ELSE SearchArgs

BackendFor(dict, tool_name) ==
    IF ~InDict(dict, tool_name) THEN { None }
    ELSE IF DictGet(dict, tool_name) \in {"search_1", "search_2"} THEN SearchOutcomes
    ELSE IF DictGet(dict, tool_name) = "outline_1" THEN ResolveOutcomes
    ELSE { None }

Tool_execute(tool, args, backend) ==
    IF tool \in {"search_1", "search_2"} THEN CourseSearchTool_execute(args, backend)
    ELSE IF tool = "outline_1" THEN CourseOutlineTool_execute(args, backend)
    ELSE Executed(<<"A result">>, None, <<>>)

NotFoundText(tool_name) == <<"Tool '", tool_name, "' not found">>

\* execute_tool answering an unknown name without naming it
ExecuteToolUnnamed(dict, tool_name, args, backend) ==
    IF ~InDict(dict, tool_name)
    THEN [ret |-> <<"Tool not found">>, invoked |-> None, stored |-> None,
          calls |-> <<>>]
    ELSE LET tool == DictGet(dict, tool_name)
             done == Tool_execute(tool, args, backend)
         IN  [ret |-> done.ret, invoked |-> Some(tool), stored |-> done.stored,
              calls |-> done.calls]

\* execute_tool: the text returned, the tool invoked (None: none) and the
\* value it assigned to its last_sources (None: no assignment)
execute_tool(dict, tool_name, args, backend) ==
    IF ~InDict(dict, tool_name)
    THEN [ret |-> NotFoundText(tool_name), invoked |-> None, stored |-> None,
          calls |-> <<>>]
    ELSE LET tool == DictGet(dict, tool_name)
             done == Tool_execute(tool, args, backend)
         IN  [ret |-> done.ret, invoked |-> Some(tool), stored |-> done.stored,
              calls |-> done.calls]

\* the citations of the call appended to the ones the tool holds
SourcesAfterAppending(sources, call) ==
    IF call.stored = None THEN sources
    ELSE [sources EXCEPT ![Value(call.invoked)] = @ \o Value(call.stored)]

\* the call leaving the last_sources attributes as they were
SourcesAfterNotStored(sources, call) == sources

\* last_sources kept as an attribute of the class: every content search
\* tool object sees what any of them stored
SourcesAfterClassLevel(sources, call) ==
    IF call.stored = None THEN sources
    ELSE [t \in DOMAIN sources |->
            IF t = Value(call.invoked)
               \/ {t, Value(call.invoked)} \subseteq {"search_1", "search_2"}
            THEN Value(call.stored) ELSE sources[t]]

\* the last_sources attributes after that call
SourcesAfter(sources, call) ==
    IF call.stored = None THEN sources
    ELSE [sources EXCEPT ![Value(call.invoked)] = Value(call.stored)]

RECURSIVE LastSourcesFrom(_, _, _)
LastSourcesFrom(dict, sources, i) ==
    IF i > Len(dict) THEN <<>>
    ELSE IF HasLastSources(dict[i].tool) /\ sources[dict[i].tool] # <<>>
         THEN sources[dict[i].tool]
         ELSE LastSourcesFrom(dict, sources, i + 1)

\* the loop of get_last_sources run from the last tool to the first
RECURSIVE LastSourcesDownFrom(_, _, _)
LastSourcesDownFrom(dict, sources, i) ==
    IF i < 1 THEN <<>>
    ELSE IF HasLastSources(dict[i].tool) /\ sources[dict[i].tool] # <<>>
         THEN sources[dict[i].tool]
         ELSE LastSourcesDownFrom(dict, sources, i - 1)

GetLastSourcesLastWins(dict, sources) ==
    LastSourcesDownFrom(dict, sources, Len(dict))

get_last_sources(dict, sources) == LastSourcesFrom(dict, sources, 1)

\* reset_sources leaving its loop after the first tool
ResetSourcesFirstOnly(dict, sources) ==
    [t \in DOMAIN sources |->
        IF dict # <<>> /\ dict[1].tool = t THEN <<>> ELSE sources[t]]

reset_sources(dict, sources) ==
    [t \in DOMAIN sources |->
        IF \E i \in 1..Len(dict) : dict[i].tool = t THEN <<>> ELSE sources[t]]

\* ------------------------------------------------------ generate_response
NextRoundStuck(cur) == cur

NextRound(cur) == cur + 1

\* api_params with the tools although none were passed
ApiParamsAlwaysTools ==
    [messages |-> messages, system |-> system_content,
     tools |-> IF tools # None THEN Value(tools) ELSE "",
     tool_choice |-> [type |-> "auto"]]

ApiParams ==
    IF tools # None
    THEN [messages |-> messages, system |-> system_content,
          tools |-> Value(tools), tool_choice |-> [type |-> "auto"]]
    ELSE [messages |-> messages, system |-> system_content]

\* ------------------------------------------------- _build_system_content
\* SYSTEM_PROMPT before and after the line that str.replace substitutes
PromptBefore ==
    " You are an AI assistant specialized in course materials ... for questions about course structure, lesson lists, course overview, or complete course outlines\n"

PromptAfter ==
    "\n- After each tool call, you'll see the results ... Provide only the direct answer to what was asked.\n"

HistoryHeading == "\n\nPrevious conversation:\n"

\* the conversation_history arguments: omitted, the text of the tests, and
\* the empty text
SampleHistory == <<"Previous: Hello\nAssistant: Hi there!">>

Histories == { None, Some(SampleHistory), Some(<<>>) }

\* the line of SYSTEM_PROMPT that states the default budget
DefaultClause ==
    "- **Sequential Tool Calling**: You can make up to 2 tool calls across separate rounds to gather comprehensive information"

SYSTEM_PROMPT == <<PromptBefore, DefaultClause, PromptAfter>>

\* str.replace(old, new) on a text: every occurrence of old gives way to new
RECURSIVE Replace(_, _, _)
Replace(text, old, new) ==
    IF text = <<>> THEN <<>>
    ELSE (IF Head(text) = old THEN new ELSE <<Head(text)>>)
         \o Replace(Tail(text), old, new)

\* the instructions stating the default budget whatever max_rounds is
MultiRoundInstructionsDefault(rounds) ==
    <<"\nTool Usage Protocol (Sequential):\n",
      "- You can make up to ", NumStr(DefaultMaxRounds),
      " tool calls across separate rounds",
      "\n- After each tool call ... from all rounds in your final response\n">>

\* the f-string multi_round_instructions
MultiRoundInstructions(rounds) ==
    <<"\nTool Usage Protocol (Sequential):\n",
      "- You can make up to ", NumStr(rounds),
      " tool calls across separate rounds",
      "\n- After each tool call ... from all rounds in your final response\n">>

\* the system content built without the history
BuildSystemContentNoHistory(history, rounds) ==
    Replace(SYSTEM_PROMPT, DefaultClause, MultiRoundInstructions(rounds))

_build_system_content(history, rounds) ==
    LET multi_round_instructions == MultiRoundInstructions(rounds)
        base_prompt == Replace(SYSTEM_PROMPT, DefaultClause, multi_round_instructions)
    IN  IF history # None /\ Value(history) # <<>>
        THEN base_prompt \o <<HistoryHeading>> \o Value(history)
        ELSE base_prompt

\* a ToolManager passed as tool_manager
RealManager == "ToolManager"

RECURSIVE RegisterAll(_)
RegisterAll(registered) ==
    IF registered = <<>> THEN <<>>
    ELSE register_tool(RegisterAll(SubSeq(registered, 1, Len(registered) - 1)),
                       registered[Len(registered)]).tools

\* the citation an outline of the course Intro leaves behind
IntroOutlineSources ==
    Value(CourseOutlineTool_execute([course_title |-> "Intro"], Some("Intro")).stored)

\* the tool_manager argument: absent, the mock of the tests, or a ToolManager
\* with the tools registered in it and the citations they hold at entry
ManagerChoices ==
    { [manager |-> None, registered |-> <<>>, sources |-> NoSources],
      [manager |-> Some(Manager), registered |-> <<>>, sources |-> NoSources],
      [manager |-> Some(RealManager), registered |-> <<>>, sources |-> NoSources],
      [manager |-> Some(RealManager), registered |-> <<"outline_1">>,
       sources |-> [NoSources EXCEPT !["outline_1"] = IntroOutlineSources]] }

\* tool_manager.execute_tool(block.name, **block.input)
KwArgs(input) ==
    [query |-> input.query, course_name |-> None, lesson_number |-> None]

\* the invocations that run concurrently on one AIGenerator
Calls == {1, 2}

\* the locals of an invocation that has not been entered, with the calls it
\* made, the citations its own tool executions stored, and the citations
\* its request read
IdleFrame ==
    [pc |-> "idle", max_rounds |-> DefaultMaxRounds, messages |-> <<>>,
     current_round |-> 0, response |-> NoResponse, block_idx |-> 0,
     tool_results |-> <<>>, result |-> NotReturned, calls |-> 0,
     own |-> <<>>, seen |-> None]

\* the requests use one ToolManager, one ToolManager each, or one
\* ToolManager under a lock held for the whole request
SharingModes == {"shared", "own", "serialized"}

InitOne ==
    /\ pc = "idle"
    /\ max_rounds_arg = None
    /\ max_rounds = DefaultMaxRounds
    /\ tools = None
    /\ tool_manager = None
    /\ messages = <<>>
    /\ current_round = 0
    /\ response = NoResponse
    /\ tool_used = FALSE
    /\ block_idx = 0
    /\ tool_results = <<>>
    /\ result = NotReturned
    /\ api_calls = <<>>
    /\ exec_log = <<>>
    /\ conversation_history = None
    /\ system_content = <<>>
    /\ manager_tools = <<>>
    /\ last_sources = NoSources
    /\ last_call = [op |-> "none"]
    /\ last_recorded = None
    /\ reg_log = <<>>
    /\ cleared = FALSE

Init ==
    /\ InitOne
    /\ sharing = "shared"
    /\ lock = 0
    /\ frames = [p \in Calls |-> IdleFrame]

\* generate_response is entered with the arguments a (max_rounds), h
\* (conversation_history), t (tools) and m (tool_manager): parameters bound,
\* system content built, conversation state set up
Enter(a, h, t, m) ==
    /\ pc = "idle"
    /\ max_rounds_arg' = a
    /\ max_rounds' = (IF a = None THEN DefaultMaxRounds ELSE Value(a))
    /\ conversation_history' = h
    /\ tools' = t
    /\ tool_manager' = m.manager
    /\ manager_tools' = RegisterAll(m.registered)
    /\ reg_log' = m.registered
    /\ last_sources' = m.sources
    /\ system_content' = _build_system_content(h,
            IF a = None THEN DefaultMaxRounds ELSE Value(a))
    /\ messages' = << [role |-> "user", content |-> Query] >>
    /\ current_round' = 0
    /\ pc' = "loop"
    /\ UNCHANGED <<response, tool_used, block_idx, tool_results, result,
                   api_calls, exec_log, last_call, last_recorded, cleared>>
    /\ UNCHANGED concvars

\* generate_response called without conversation_history
GenerateResponse ==
    \E a \in {None} \cup { Some(n) : n \in Budgets } :
    \E t \in {None, Some(SampleTools)} :
    \E m \in ManagerChoices :
        Enter(a, None, t, m)

\* the while condition is false: fall through to the return statement
\* the loop left without a response and the fallback message returned
WhileExitFallback ==
    /\ pc = "loop"
    /\ ~(current_round < max_rounds)
    /\ pc' = "done"
    /\ result' = (IF response = NoResponse THEN FallbackMessage
                  ELSE _extract_final_response(response))
    /\ UNCHANGED sysvars
    /\ UNCHANGED concvars
    /\ UNCHANGED <<max_rounds_arg, max_rounds, tools, tool_manager, messages,
                   current_round, response, tool_used, block_idx,
                   tool_results, api_calls, exec_log>>
    /\ UNCHANGED regvars

WhileExit ==
    /\ pc = "loop"
    /\ ~(current_round < max_rounds)
    /\ IF response = NoResponse
       THEN pc' = "error" /\ result' = result
       ELSE pc' = "done" /\ result' = _extract_final_response(response)
    /\ UNCHANGED sysvars
    /\ UNCHANGED concvars
    /\ UNCHANGED <<max_rounds_arg, max_rounds, tools, tool_manager, messages,
                   current_round, response, tool_used, block_idx,
                   tool_results, api_calls, exec_log>>
    /\ UNCHANGED regvars

\* one pass of the loop body up to the tool execution: the model service
\* answers, the answer is appended, the continuation is decided
Round(resp) ==
    /\ pc = "loop"
    /\ current_round < max_rounds
    /\ LET round == NextRound(current_round)
           used  == resp.stop_reason = "tool_use"
       IN
        /\ current_round' = round
        /\ api_calls' = Append(api_calls, ApiParams)
        /\ response' = resp
        /\ tool_used' = used
        /\ messages' = Append(messages, [role |-> "assistant", content |-> resp.content])
        /\ IF ~_should_continue_rounds(resp, round, max_rounds)
           THEN /\ pc' = "done"
                /\ result' = _extract_final_response(resp)
                /\ UNCHANGED <<block_idx, tool_results>>
           ELSE IF used /\ tool_manager # None
           THEN /\ pc' = "tools"
                /\ block_idx' = 1
                /\ tool_results' = <<>>
                /\ result' = result
           ELSE /\ pc' = "loop"
                /\ UNCHANGED <<block_idx, tool_results, result>>
    /\ UNCHANGED sysvars
    /\ UNCHANGED concvars
    /\ UNCHANGED <<max_rounds_arg, max_rounds, tools, tool_manager, exec_log>>
    /\ UNCHANGED regvars

\* the same with any response the model service may give in the round
ConversationRound ==
    /\ pc = "loop"
    /\ \E resp \in Responses(current_round + 1) : Round(resp)

\* the exception of client.messages.create swallowed and the loop re-entered
ApiFailureRetried ==
    /\ pc = "loop"
    /\ current_round < max_rounds
    /\ current_round' = NextRound(current_round)
    /\ api_calls' = Append(api_calls, ApiParams)
    /\ pc' = "loop"
    /\ UNCHANGED sysvars
    /\ UNCHANGED concvars
    /\ UNCHANGED <<max_rounds_arg, max_rounds, tools, tool_manager, messages,
                   response, tool_used, block_idx, tool_results, result,
                   exec_log>>
    /\ UNCHANGED regvars

\* client.messages.create raises: the exception leaves generate_response
ApiFailure ==
    /\ pc = "loop"
    /\ current_round < max_rounds
    /\ current_round' = NextRound(current_round)
    /\ api_calls' = Append(api_calls, ApiParams)
    /\ pc' = "failed"
    /\ UNCHANGED sysvars
    /\ UNCHANGED concvars
    /\ UNCHANGED <<max_rounds_arg, max_rounds, tools, tool_manager, messages,
                   response, tool_used, block_idx, tool_results, result,
                   exec_log>>
    /\ UNCHANGED regvars

\* the loop of _execute_tools left at the first execution that raises
ExecuteToolBlockStopAtFailure ==
    /\ pc = "tools"
    /\ block_idx <= Len(response.content)
    /\ LET block == response.content[block_idx] IN
       IF block.type = "tool_use" /\ tool_manager = Some(RealManager)
       THEN \E backend \in BackendFor(manager_tools, block.name) :
            LET call == execute_tool(manager_tools, block.name,
                                     KwArgs(block.input), backend)
                outcome == [kind |-> "return", text |-> call.ret]
            IN
            /\ exec_log' = Append(exec_log,
                   [round |-> current_round, name |-> block.name,
                    input |-> block.input, id |-> block.id,
                    outcome |-> outcome])
            /\ tool_results' = Append(tool_results, ToolResult(block, outcome))
            /\ last_sources' = SourcesAfter(last_sources, call)
            /\ last_call' = [op |-> "execute_tool", name |-> block.name,
                             ret |-> call.ret, invoked |-> call.invoked]
            /\ last_recorded' = call.stored
            /\ cleared' = (cleared /\ call.stored = None)
            /\ UNCHANGED <<manager_tools, reg_log>>
       ELSE IF block.type = "tool_use"
       THEN \E outcome \in ToolOutcomes :
            /\ exec_log' = Append(exec_log,
                   [round |-> current_round, name |-> block.name,
                    input |-> block.input, id |-> block.id,
                    outcome |-> outcome])
            /\ tool_results' = Append(tool_results, ToolResult(block, outcome))
            /\ UNCHANGED regvars
       ELSE UNCHANGED <<exec_log, tool_results>> /\ UNCHANGED regvars
    /\ block_idx' = (IF /\ exec_log' # exec_log
                        /\ exec_log'[Len(exec_log')].outcome.kind = "raise"
                     THEN Len(response.content) + 1
                     ELSE block_idx + 1)
    /\ UNCHANGED sysvars
    /\ UNCHANGED concvars
    /\ UNCHANGED <<pc, max_rounds_arg, max_rounds, tools, tool_manager,
                   messages, current_round, response, tool_used, result,
                   api_calls>>

\* one iteration of the for loop of _execute_tools
ExecuteToolBlock ==
    /\ pc = "tools"
    /\ block_idx <= Len(response.content)
    /\ LET block == response.content[block_idx] IN
       IF block.type = "tool_use" /\ tool_manager = Some(RealManager)
       THEN \E backend \in BackendFor(manager_tools, block.name) :
            LET call == execute_tool(manager_tools, block.name,
                                     KwArgs(block.input), backend)
                outcome == [kind |-> "return", text |-> call.ret]
            IN
            /\ exec_log' = Append(exec_log,
                   [round |-> current_round, name |-> block.name,
                    input |-> block.input, id |-> block.id,
                    outcome |-> outcome])
            /\ tool_results' = Append(tool_results, ToolResult(block, outcome))
            /\ last_sources' = SourcesAfter(last_sources, call)
            /\ last_call' = [op |-> "execute_tool", name |-> block.name,
                             ret |-> call.ret, invoked |-> call.invoked]
            /\ last_recorded' = call.stored
            /\ cleared' = (cleared /\ call.stored = None)
            /\ UNCHANGED <<manager_tools, reg_log>>
       ELSE IF block.type = "tool_use"
       THEN \E outcome \in ToolOutcomes :
            /\ exec_log' = Append(exec_log,
                   [round |-> current_round, name |-> block.name,
                    input |-> block.input, id |-> block.id,
                    outcome |-> outcome])
            /\ tool_results' = Append(tool_results, ToolResult(block, outcome))
            /\ UNCHANGED regvars
       ELSE UNCHANGED <<exec_log, tool_results>> /\ UNCHANGED regvars
    /\ block_idx' = block_idx + 1
    /\ UNCHANGED sysvars
    /\ UNCHANGED concvars
    /\ UNCHANGED <<pc, max_rounds_arg, max_rounds, tools, tool_manager,
                   messages, current_round, response, tool_used, result,
                   api_calls>>

\* _execute_tools returning after its first content block
ToolsDoneEarly ==
    /\ pc = "tools"
    /\ block_idx > 1
    /\ messages' = IF tool_results # <<>>
                   THEN Append(messages, [role |-> "user", content |-> tool_results])
                   ELSE messages
    /\ pc' = "loop"
    /\ UNCHANGED sysvars
    /\ UNCHANGED concvars
    /\ UNCHANGED <<max_rounds_arg, max_rounds, tools, tool_manager,
                   current_round, response, tool_used, block_idx,
                   tool_results, result, api_calls, exec_log>>
    /\ UNCHANGED regvars

\* the citations reset once the tool results are appended
ToolsDoneResetting ==
    /\ pc = "tools"
    /\ block_idx > Len(response.content)
    /\ messages' = IF tool_results # <<>>
                   THEN Append(messages, [role |-> "user", content |-> tool_results])
                   ELSE messages
    /\ pc' = "loop"
    /\ UNCHANGED sysvars
    /\ UNCHANGED concvars
    /\ UNCHANGED <<max_rounds_arg, max_rounds, tools, tool_manager,
                   current_round, response, tool_used, block_idx,
                   tool_results, result, api_calls, exec_log>>
    /\ last_sources' = reset_sources(manager_tools, last_sources)
    /\ UNCHANGED <<manager_tools, last_call, last_recorded, reg_log, cleared>>

\* _execute_tools never returning to the loop
ToolsDoneNeverReturns ==
    /\ pc = "tools"
    /\ block_idx > Len(response.content)
    /\ pc' = "tools"
    /\ UNCHANGED sysvars
    /\ UNCHANGED concvars
    /\ UNCHANGED <<max_rounds_arg, max_rounds, tools, tool_manager, messages,
                   current_round, response, tool_used, block_idx,
                   tool_results, result, api_calls, exec_log>>
    /\ UNCHANGED regvars

\* _execute_tools returns; its results are appended as one user turn
ToolsDone ==
    /\ pc = "tools"
    /\ block_idx > Len(response.content)
    /\ messages' = IF tool_results # <<>>
                   THEN Append(messages, [role |-> "user", content |-> tool_results])
                   ELSE messages
    /\ pc' = "loop"
    /\ UNCHANGED sysvars
    /\ UNCHANGED concvars
    /\ UNCHANGED <<max_rounds_arg, max_rounds, tools, tool_manager,
                   current_round, response, tool_used, block_idx,
                   tool_results, result, api_calls, exec_log>>
    /\ UNCHANGED regvars

Next ==
    \/ GenerateResponse
    \/ WhileExit
    \/ ConversationRound
    \/ ApiFailure
    \/ ExecuteToolBlock
    \/ ToolsDone

Spec == Init /\ [][Next]_vars

\* generate_response runs on: the statement at which an invocation stands
\* is executed, every model-service call returns or raises, and every tool
\* execution returns or raises
\* one response of every kind that the loop tells apart: no block, text,
\* whitespace text, tool use, text with tool use, two tool uses; each with
\* either stop reason
ResponseKinds(r) ==
    { [stop_reason |-> s, content |-> c] :
        s \in StopReasons,
        c \in { <<>>,
                << [type |-> "text", text |-> <<"a">>] >>,
                << [type |-> "text", text |-> <<" ">>] >>,
                << ToolUseBlock(r, 1) >>,
                << [type |-> "text", text |-> <<"a">>], ToolUseBlock(r, 2) >>,
                << ToolUseBlock(r, 1), ToolUseBlock(r, 2) >> } }

RoundOfAnyKind ==
    /\ pc = "loop"
    /\ \E resp \in ResponseKinds(current_round + 1) : Round(resp)

\* the steps of an invocation that has been entered
Running ==
    \/ WhileExit
    \/ RoundOfAnyKind
    \/ ApiFailure
    \/ ExecuteToolBlock
    \/ ToolsDone

NextLive == GenerateResponse \/ Running

LiveSpec == Init /\ [][NextLive]_vars /\ WF_vars(Running)

\* ------------------------------------------------- calls on a ToolManager
\* the names execute_tool is called with
ToolNames ==
    { "search_course_content", "get_course_outline", "plain_tool", "nonexistent" }

RegisterTool ==
    /\ pc = "idle"
    /\ Len(reg_log) < MaxRegistrations
    /\ \E tool \in ToolObjects :
        LET done == register_tool(manager_tools, tool) IN
        /\ manager_tools' = done.tools
        /\ reg_log' = IF done.raised THEN reg_log ELSE Append(reg_log, tool)
        /\ last_call' = [op |-> "register_tool", tool |-> tool,
                         raised |-> done.raised]
    /\ last_recorded' = None
    /\ UNCHANGED <<last_sources, cleared>>
    /\ UNCHANGED genvars
    /\ UNCHANGED concvars

GetToolDefinitions ==
    /\ pc = "idle"
    /\ last_call' = [op |-> "get_tool_definitions",
                     ret |-> get_tool_definitions(manager_tools)]
    /\ UNCHANGED <<manager_tools, last_sources, last_recorded, reg_log, cleared>>
    /\ UNCHANGED genvars
    /\ UNCHANGED concvars

ExecuteTool ==
    /\ pc = "idle"
    /\ \E tool_name \in ToolNames :
       \E args \in ArgsFor(tool_name) :
       \E backend \in BackendFor(manager_tools, tool_name) :
        LET call == execute_tool(manager_tools, tool_name, args, backend) IN
        /\ last_sources' = SourcesAfter(last_sources, call)
        /\ last_call' = [op |-> "execute_tool", name |-> tool_name,
                         args |-> args, backend |-> backend,
                         ret |-> call.ret, invoked |-> call.invoked,
                         calls |-> call.calls]
        /\ last_recorded' = call.stored
        /\ cleared' = (cleared /\ call.stored = None)
    /\ UNCHANGED <<manager_tools, reg_log>>
    /\ UNCHANGED genvars
    /\ UNCHANGED concvars

GetLastSources ==
    /\ pc = "idle"
    /\ last_call' = [op |-> "get_last_sources",
                     ret |-> get_last_sources(manager_tools, last_sources)]
    /\ UNCHANGED <<manager_tools, last_sources, last_recorded, reg_log, cleared>>
    /\ UNCHANGED genvars
    /\ UNCHANGED concvars

ResetSources ==
    /\ pc = "idle"
    /\ last_sources' = reset_sources(manager_tools, last_sources)
    /\ last_call' = [op |-> "reset_sources",
                     held |-> get_last_sources(manager_tools, last_sources) # <<>>]
    /\ last_recorded' = None
    /\ cleared' = TRUE
    /\ UNCHANGED <<manager_tools, reg_log>>
    /\ UNCHANGED genvars
    /\ UNCHANGED concvars

NextRegistry ==
    \/ RegisterTool
    \/ GetToolDefinitions
    \/ ExecuteTool
    \/ GetLastSources
    \/ ResetSources

RegistrySpec == Init /\ [][NextRegistry]_vars

\* =========================================================== properties
\* vocabulary of the properties, stated on block sequences directly

\* the text has a token that is not whitespace
NonBlank(t) == \E i \in 1..Len(t) : t[i] \notin Whitespace

IsText(b) == b.type = "text"
IsToolUse(b) == b.type = "tool_use"

\* the content holds a tool-invocation-request
HasRequest(c) == \E i \in 1..Len(c) : IsToolUse(c[i])

\* the content holds a text block with non-whitespace text
HasNonBlankText(c) == \E i \in 1..Len(c) : IsText(c[i]) /\ NonBlank(c[i].text)

\* the content holds a text block
HasTextBlock(c) == \E i \in 1..Len(c) : IsText(c[i])

ToolUseOnly(c) == HasRequest(c) /\ ~HasNonBlankText(c)

Mixed(c) == HasRequest(c) /\ HasNonBlankText(c)

\* the responses produced so far, oldest first
IsAssistant(m) == m.role = "assistant"
AssistantTurns == SelectSeq(messages, IsAssistant)
Produced == Len(AssistantTurns)
ResponseContent(k) == AssistantTurns[k].content

\* the tool-invocation-requests of a content, in order
IsRequest(b) == IsToolUse(b)
Requests(c) == SelectSeq(c, IsRequest)

\* turn is a user turn of tool-results answering the requests of content c
\* one for one, in order, with the requests' correlation ids
Answers(turn, c) ==
    /\ turn.role = "user"
    /\ Len(turn.content) = Len(Requests(c))
    /\ \A i \in 1..Len(turn.content) :
        /\ turn.content[i].type = "tool_result"
        /\ turn.content[i].tool_use_id = Requests(c)[i].id

\* the executions logged for round r, in order
InRound(r) == { i \in 1..Len(exec_log) : exec_log[i].round = r }

\* x is the text of the first block of c that is a text block with
\* non-whitespace text, or the fallback message when c has no such block
FirstNonBlankOrFallback(x, c) ==
    \/ \E i \in 1..Len(c) :
        /\ IsText(c[i]) /\ NonBlank(c[i].text)
        /\ \A j \in 1..(i - 1) : ~(IsText(c[j]) /\ NonBlank(c[j].text))
        /\ x = c[i].text
    \/ /\ ~HasNonBlankText(c)
       /\ x = FallbackMessage

Answered == Produced >= 1 /\ Len(api_calls) = Produced

\* the engine is continuing after `response`: it is executing the requests,
\* or has executed each of them through the tool manager, in order, and has
\* appended the results as one user turn, with the loop condition true
Continuing ==
    /\ pc \in {"tools", "loop"}
    /\ pc = "loop" =>
        /\ current_round < max_rounds
        /\ Len(messages) >= 2
        /\ IsAssistant(messages[Len(messages) - 1])
        /\ messages[Len(messages) - 1].content = response.content
        /\ Answers(messages[Len(messages)], response.content)
        /\ Cardinality(InRound(current_round)) = Len(Requests(response.content))
        /\ \A i \in 1..Len(Requests(response.content)) :
            \E e \in InRound(current_round) :
                /\ Cardinality({ f \in InRound(current_round) : f < e }) = i - 1
                /\ exec_log[e].name = Requests(response.content)[i].name
                /\ exec_log[e].input = Requests(response.content)[i].input
                /\ exec_log[e].id = Requests(response.content)[i].id

\* C3 as stated: whenever the budget is not exhausted and the response is
\* tool-use-only, the engine continues (executes every request through the
\* supplied registry, appends the results as one user turn, goes on to the
\* next call), whatever the stop reason.
C3_Original ==
    (/\ Answered
     /\ current_round < max_rounds
     /\ tool_manager # None
     /\ ToolUseOnly(response.content))
        => Continuing

\* C3 amended: whenever the budget is not exhausted, the stop reason is
\* tool_use, a tool manager was supplied and the response is tool-use-only,
\* the engine continues (executes every request through the tool manager in
\* order, appends the results as one user turn, goes on to the next call).
C3_ContinuesOnToolUseStop ==
    (/\ Answered
     /\ current_round < max_rounds
     /\ response.stop_reason = "tool_use"
     /\ tool_manager # None
     /\ ToolUseOnly(response.content))
        => Continuing

C3_Witness ==
    /\ pc = "loop"
    /\ Answered
    /\ current_round < max_rounds
    /\ response.stop_reason = "tool_use"
    /\ tool_manager # None
    /\ Len(Requests(response.content)) = 2
    /\ Requests(response.content)[1].id # Requests(response.content)[2].id
    /\ Len(messages) = 3

\* ------------------------------------------------------------------- C4
\* C4: whenever a further model-service call is issued after a response,
\* every tool-invocation-request of that response has been answered by
\* exactly one tool-result with the matching correlation id, in the same
\* order, in the turn that follows it (tool manager supplied or not).
C4_RequestsAnsweredBeforeNextCall ==
    \A k \in 2..Len(api_calls) :
        LET msgs == api_calls[k].messages
            n    == Len(msgs)
        IN  /\ n >= 3
            /\ IsAssistant(msgs[n - 1])
            /\ msgs[n - 1].content = ResponseContent(k - 1)
            /\ Answers(msgs[n], msgs[n - 1].content)

\* ------------------------------------------------------------------- C5
\* the first response holds no tool-invocation-request
FirstIsDirect == Produced >= 1 /\ ~HasRequest(ResponseContent(1))

\* C5 as stated: if the first response holds no tool-invocation-request,
\* there is exactly one model-service call, no tool execution, and the
\* response's text block is returned verbatim, for every text value (empty
\* and whitespace-only included); the default budget is 2.
C5_Original ==
    /\ (pc # "idle" /\ max_rounds_arg = None) => max_rounds = 2
    /\ FirstIsDirect =>
        /\ pc = "done"
        /\ Len(api_calls) = 1
        /\ exec_log = <<>>
        /\ \A i \in 1..Len(ResponseContent(1)) :
            (/\ IsText(ResponseContent(1)[i])
             /\ \A j \in 1..(i - 1) : ~IsText(ResponseContent(1)[j]))
                => result = ResponseContent(1)[i].text

\* C5 amended: if the first response holds no tool-invocation-request,
\* there is exactly one model-service call, no tool execution, and the value
\* returned is, verbatim, the text of the first text block whose text is not
\* only whitespace, or the fallback message when there is none (so for an
\* empty or whitespace-only text); the default budget is 2.
C5_DirectAnswerOneCall ==
    /\ (pc # "idle" /\ max_rounds_arg = None) => max_rounds = 2
    /\ FirstIsDirect =>
        /\ pc = "done"
        /\ Len(api_calls) = 1
        /\ exec_log = <<>>
        /\ FirstNonBlankOrFallback(result, ResponseContent(1))

C5_Witness ==
    /\ FirstIsDirect
    /\ max_rounds_arg = None
    /\ tools # None
    /\ ResponseContent(1) = << [type |-> "text", text |-> <<" ", "b">>] >>
    /\ result = <<" ", "b">>

FailureResult(e) ==
    [type |-> "tool_result",
     tool_use_id |-> exec_log[e].id,
     content |-> <<"Tool execution error: ">> \o exec_log[e].outcome.text]

IsIn(x, seq) == \E i \in 1..Len(seq) : seq[i] = x

\* C7: when a tool execution raises in round r, generate_response does not
\* fail because of it: the failure becomes a tool-result with the request's
\* correlation id and the content "Tool execution error: <description>",
\* that result is in the user turn that follows the round's assistant turn
\* (turns: ..., assistant tool call, user tool results), the next
\* model-service call receives these turns, and the invocation returns the
\* answer of a later response.
C7_ToolFailureBecomesResult ==
    \A e \in 1..Len(exec_log) :
        exec_log[e].outcome.kind = "raise" =>
            LET r == exec_log[e].round IN
            /\ pc # "error"
            /\ (pc = "tools" /\ current_round = r) => IsIn(FailureResult(e), tool_results)
            /\ (pc # "tools" \/ current_round > r) =>
                /\ Len(messages) >= 2 * r + 1
                /\ messages[2 * r].role = "assistant"
                /\ messages[2 * r + 1].role = "user"
                /\ IsIn(FailureResult(e), messages[2 * r + 1].content)
            /\ Len(api_calls) > r =>
                /\ Len(api_calls[r + 1].messages) = 2 * r + 1
                /\ api_calls[r + 1].messages[1] = [role |-> "user", content |-> Query]
                /\ api_calls[r + 1].messages[2 * r].role = "assistant"
                /\ api_calls[r + 1].messages[2 * r + 1].role = "user"
                /\ IsIn(FailureResult(e), api_calls[r + 1].messages[2 * r + 1].content)
            /\ pc = "done" =>
                /\ Produced > r
                /\ Len(api_calls) = Produced
                /\ result # NotReturned

C7_Witness ==
    /\ pc = "done"
    /\ Len(api_calls) = 2
    /\ Len(exec_log) = 1
    /\ exec_log[1].outcome.kind = "raise"
    /\ Len(api_calls[2].messages) = 3
    /\ result = <<"a">>

\* ------------------------------------------------------------------- C8
\* C8: with round budget 2, when the first two responses are both
\* tool-use-only, the requests of both rounds are executed (in round order,
\* with each round's arguments) and a third model-service call is made whose
\* text is returned: 3 model-service calls in total.
C8_ThirdCallAfterTwoToolRounds ==
    (/\ pc = "done"
     /\ max_rounds = 2
     /\ tool_manager # None
     /\ Produced >= 2
     /\ ToolUseOnly(ResponseContent(1))
     /\ ToolUseOnly(ResponseContent(2))
     /\ response.stop_reason = "tool_use") =>
        /\ Len(api_calls) = 3
        /\ Produced = 3
        /\ Len(exec_log) = Len(Requests(ResponseContent(1))) + Len(Requests(ResponseContent(2)))
        /\ \A i \in 1..Len(Requests(ResponseContent(1))) :
            /\ exec_log[i].round = 1
            /\ exec_log[i].input = Requests(ResponseContent(1))[i].input
        /\ \A i \in 1..Len(Requests(ResponseContent(2))) :
            /\ exec_log[Len(Requests(ResponseContent(1))) + i].round = 2
            /\ exec_log[Len(Requests(ResponseContent(1))) + i].input =
                   Requests(ResponseContent(2))[i].input
        /\ FirstNonBlankOrFallback(result, ResponseContent(3))

C10_Original ==
    pc = "done" =>
        /\ \A i \in 1..Len(response.content) :
            (/\ IsText(response.content[i])
             /\ \A j \in 1..(i - 1) : ~IsText(response.content[j]))
                => result = response.content[i].text
        /\ result = FallbackMessage => ~HasTextBlock(response.content)

\* C10 amended: on termination the value returned is the text of the first
\* text block of the last response whose text is not only whitespace,
\* whatever precedes or follows it, and it is the fallback message exactly
\* when that response holds no such text block.
C10_FirstNonBlankTextOrFallback ==
    pc = "done" =>
        /\ response.content = ResponseContent(Produced)
        /\ FirstNonBlankOrFallback(result, response.content)
        /\ result = FallbackMessage <=> ~HasNonBlankText(response.content)

C10_Witness ==
    /\ pc = "done"
    /\ Len(response.content) = 2
    /\ IsText(response.content[1])
    /\ ~NonBlank(response.content[1].text)
    /\ IsText(response.content[2])
    /\ result = response.content[2].text
    /\ result = <<" ", "b">>

\* ------------------------------------------------------------------ C11
\* C11: a model-service call that fails ends the invocation with a hard
\* failure: a call left without a response is the last call, nothing is
\* returned, and no tool is executed in the round of the failed call.
C11_ApiFailurePropagates ==
    Len(api_calls) > Produced =>
        /\ pc = "failed"
        /\ Len(api_calls) = Produced + 1
        /\ result = NotReturned
        /\ InRound(Len(api_calls)) = {}
        /\ \A i \in 1..Len(exec_log) : exec_log[i].round < Len(api_calls)

C11_Witness ==
    /\ pc = "failed"
    /\ Len(api_calls) = 2
    /\ Produced = 1
    /\ exec_log # <<>>

\* ------------------------------------------------------------------ C12
\* C12: the events of one invocation are strictly sequential. A tool is
\* executed only when the model-service call of its round has been answered,
\* in the order of the requests of that answer; and the call of the next
\* round is issued only when, a tool manager being supplied, every request
\* of the round before has been executed and the results have been appended
\* as the last turn.
C12_CallStep ==
    LET k == Len(api_calls) IN
    /\ exec_log' = exec_log
    /\ pc = "loop"
    /\ Produced = k
    /\ (k >= 1 /\ tool_manager # None) =>
        /\ Cardinality(InRound(k)) = Len(Requests(ResponseContent(k)))
        /\ Answers(messages[Len(messages)], ResponseContent(k))

C12_ExecStep ==
    LET k == Len(api_calls)
        n == Cardinality(InRound(k))
    IN
    /\ api_calls' = api_calls
    /\ pc = "tools"
    /\ Produced = k
    /\ current_round = k
    /\ Len(exec_log') = Len(exec_log) + 1
    /\ n < Len(Requests(ResponseContent(k)))
    /\ exec_log'[Len(exec_log')].round = k
    /\ exec_log'[Len(exec_log')].id = Requests(ResponseContent(k))[n + 1].id

C12_StrictlySequential ==
    [][ /\ (api_calls' # api_calls => C12_CallStep)
        /\ (exec_log' # exec_log => C12_ExecStep) ]_vars

C12_Witness ==
    /\ Len(api_calls) = 2
    /\ Cardinality(InRound(1)) = 2

\* -------------------------------------------- vocabulary of the registry
IsSearchTool(t) == t \in {"search_1", "search_2"}

\* the latest call was execute_tool and reached a tool
Invoked == last_call.op = "execute_tool" /\ last_call.invoked # None

\* the stored citations of tool t
StoredBy(t) == last_sources[t]

\* the tools the registry holds
Retained == { manager_tools[i].tool : i \in 1..Len(manager_tools) }

\* the name a tool declares
NameOf(tool) == DefGetName(get_tool_definition(tool))

\* the names registered so far
RegisteredNames == { NameOf(reg_log[i]) : i \in 1..Len(reg_log) }

\* the position of the first and of the last registration under a name
FirstIndex(name) ==
    CHOOSE i \in 1..Len(reg_log) :
        /\ NameOf(reg_log[i]) = name
        /\ \A j \in 1..(i - 1) : NameOf(reg_log[j]) # name

LastIndex(name) ==
    CHOOSE i \in 1..Len(reg_log) :
        /\ NameOf(reg_log[i]) = name
        /\ \A j \in (i + 1)..Len(reg_log) : NameOf(reg_log[j]) # name

\* ------------------------------------------------------------------ C13
\* C13: after every execute of a content search tool the tool's stored
\* citation list is the list of that call: one citation per passage the
\* backend returned, titled by the passage's course, and the empty list when
\* the backend reported an error or returned no passage.
C13_ExecuteReplacesCitations ==
    (Invoked /\ IsSearchTool(Value(last_call.invoked))) =>
        LET stored  == StoredBy(Value(last_call.invoked))
            results == last_call.backend
        IN
        /\ Len(stored) = Len(results.documents)
        /\ \A i \in 1..Len(stored) :
            stored[i].title[1] = CourseTitleOf(results.metadata[i])

\* ------------------------------------------------------------------ C14
\* C14: when tool executions were dispatched through the registry and the
\* latest of them recorded sources, with no reset or registration since,
\* get_last_sources returns the sources that latest execution recorded.
C14_LastSourcesAreLatest ==
    (last_call.op = "get_last_sources" /\ last_recorded # None) =>
        last_call.ret = Value(last_recorded)

\* ------------------------------------------------------------------ C15
\* C15: get_last_sources returns the stored citation list of the first tool,
\* in the order of the registry (the order in which the tools' names were
\* first registered), that has a citation list and whose list is not empty; it returns the empty list when no registered tool has a
\* non-empty list; and it changes no stored list.
HoldsCitations(i) ==
    /\ HasLastSources(manager_tools[i].tool)
    /\ StoredBy(manager_tools[i].tool) # <<>>

FirstNonEmptyList(ret) ==
    \/ \E i \in 1..Len(manager_tools) :
        /\ HoldsCitations(i)
        /\ \A j \in 1..(i - 1) : ~HoldsCitations(j)
        /\ ret = StoredBy(manager_tools[i].tool)
    \/ /\ \A i \in 1..Len(manager_tools) : ~HoldsCitations(i)
       /\ ret = <<>>

\* the registry lists its tools in the order their names were registered
InRegistrationOrder ==
    \A a, b \in 1..Len(manager_tools) :
        a < b => FirstIndex(manager_tools[a].name) < FirstIndex(manager_tools[b].name)

NoCitations ==
    \A t \in Retained \cap SourceTools : StoredBy(t) = <<>>

\* the step is a tool execution that records citations
Recording == last_call'.op = "execute_tool" /\ last_recorded' # None

\* the step registers a tool
Registering == last_call'.op = "register_tool"

\* C16 as stated: once reset_sources has run, get_last_sources returns the
\* empty list until a tool execution records citations.
C16_Original ==
    (cleared /\ last_call.op = "get_last_sources") => last_call.ret = <<>>

\* C16, amended: reset_sources empties the stored citation list of every
\* registered tool and leaves the registry as it is; from then on
\* get_last_sources returns the empty list until a tool execution records
\* citations or a tool is registered.
C16_ResetClearsCitations ==
    [][ /\ last_call'.op = "reset_sources" =>
            /\ NoCitations'
            /\ manager_tools' = manager_tools
        /\ (NoCitations /\ ~Recording /\ ~Registering) => NoCitations'
        /\ (NoCitations' /\ last_call'.op = "get_last_sources") =>
            last_call'.ret = <<>> ]_vars

C16_Witness ==
    /\ last_call.op = "reset_sources"
    /\ last_call.held
    /\ Cardinality(Retained \cap SourceTools) = 2

\* ------------------------------------------------------------------ C17
\* C17: execute_tool with a name that is not registered does not raise. It
\* returns the text "Tool '<name>' not found", invokes no tool and leaves
\* the registry and every stored citation list as they are; inside
\* generate_response that text becomes the tool-result carrying the
\* request's correlation id, and the loop goes on with the results appended
\* as the next user turn.
C17_UnknownNameStep ==
    LET e == exec_log'[Len(exec_log')] IN
    (tool_manager = Some(RealManager) /\ ~InDict(manager_tools, e.name)) =>
        /\ e.outcome.kind = "return"
        /\ e.outcome.text = <<"Tool '", e.name, "' not found">>
        /\ last_call'.op = "execute_tool"
        /\ last_call'.invoked = None
        /\ manager_tools' = manager_tools
        /\ last_sources' = last_sources
        /\ tool_results' = Append(tool_results,
                [type |-> "tool_result", tool_use_id |-> e.id,
                 content |-> e.outcome.text])
        /\ e.id = response.content[block_idx].id
        /\ pc' = "tools"

C17_ResultsFedBack ==
    /\ pc' = "loop"
    /\ tool_results # <<>> =>
        messages' = Append(messages, [role |-> "user", content |-> tool_results])

C17_UnknownToolIsNotFoundText ==
    [][ /\ (exec_log' # exec_log => C17_UnknownNameStep)
        /\ ((pc = "tools" /\ pc' # "tools") => C17_ResultsFedBack) ]_vars

C17_Witness ==
    /\ pc = "done"
    /\ tool_manager = Some(RealManager)
    /\ Len(api_calls) = 2
    /\ Len(exec_log) = 2
    /\ manager_tools # <<>>
    /\ StoredBy("outline_1") # <<>>
    /\ messages[3].content[1].content
            = <<"Tool '", "search_course_content", "' not found">>

\* ------------------------------------------------------------------ C18
\* C18: after any sequence of registrations the registry holds, for each
\* name registered, exactly one entry, and its tool is the one of the last
\* registration under that name; get_tool_definitions returns as many
\* declarations as distinct names were registered.
C18_LastRegistrationWins ==
    /\ { manager_tools[i].name : i \in 1..Len(manager_tools) } = RegisteredNames
    /\ Len(manager_tools) = Cardinality(RegisteredNames)
    /\ \A i \in 1..Len(manager_tools) :
        manager_tools[i].tool = reg_log[LastIndex(manager_tools[i].name)]
    /\ last_call.op = "get_tool_definitions" =>
        Len(last_call.ret) = Cardinality(RegisteredNames)

C18_Witness ==
    /\ last_call.op = "get_tool_definitions"
    /\ reg_log = <<"search_1", "outline_1", "search_2">>
    /\ Len(last_call.ret) = 2
    /\ DictGet(manager_tools, "search_course_content") = "search_2"

\* ------------------------------------------------------------------ C19
\* C19: register_tool raises when the tool's definition has no name or an
\* empty name, and then the dict of the registry is left as it was; no
\* entry of the registry ever has such a name.
C19_NamelessToolRejected ==
    [][ /\ (last_call'.op = "register_tool"
            /\ last_call'.tool \in {"no_name", "empty_name"}) =>
                /\ last_call'.raised
                /\ manager_tools' = manager_tools
        /\ \A i \in 1..Len(manager_tools') :
                manager_tools'[i].name \notin {PyNone, ""} ]_vars

C19_Witness ==
    /\ last_call.op = "register_tool"
    /\ last_call.tool = "no_name"
    /\ last_call.raised
    /\ Len(manager_tools) = 2

\* ------------------------------------------------------------------ C20
\* the declarations ret are those of the retained tools, one per name
DeclaresRetained(ret) ==
    /\ Len(ret) = Cardinality(RegisteredNames)
    /\ \A k \in 1..Len(ret) :
        /\ ret[k].name \in RegisteredNames
        /\ ret[k] = get_tool_definition(reg_log[LastIndex(ret[k].name)])

\* C20 as stated: get_tool_definitions lists the retained tools in the order
\* of their own registrations, a tool registered under a used name at the
\* position of that later registration.
C20_Original ==
    last_call.op = "get_tool_definitions" =>
        /\ DeclaresRetained(last_call.ret)
        /\ \A a, b \in 1..Len(last_call.ret) :
            a < b => LastIndex(last_call.ret[a].name) < LastIndex(last_call.ret[b].name)

\* C20, amended: get_tool_definitions lists the retained tools in the order
\* in which their names were first registered; a tool registered under a
\* used name takes the position of the tool it replaces.
C20_OrderOfFirstRegistration ==
    last_call.op = "get_tool_definitions" =>
        /\ DeclaresRetained(last_call.ret)
        /\ \A a, b \in 1..Len(last_call.ret) :
            a < b => FirstIndex(last_call.ret[a].name) < FirstIndex(last_call.ret[b].name)

C20_Witness ==
    /\ last_call.op = "get_tool_definitions"
    /\ reg_log = <<"search_1", "outline_1", "search_2">>
    /\ last_call.ret[1].name = "search_course_content"
    /\ last_call.ret[2].name = "get_course_outline"
    /\ manager_tools[1].tool = "search_2"

\* ------------------------------------------------- vocabulary of the tools
\* the text holds the token
Contains(text, token) == \E i \in 1..Len(text) : text[i] = token

\* the latest call was an execute of a content search tool
SearchInvoked == Invoked /\ IsSearchTool(Value(last_call.invoked))

\* the latest call was an execute of the outline tool
OutlineInvoked == Invoked /\ Value(last_call.invoked) = "outline_1"

\* the catalog has the course: the outline tool renders its outline
InCatalog(title) == \E i \in 1..Len(Catalog) : Catalog[i].title = title

CourseData(title) == Catalog[CHOOSE i \in 1..Len(Catalog) : Catalog[i].title = title]

\* the latest call rendered an outline
OutlineRendered ==
    /\ OutlineInvoked
    /\ last_call.backend # None
    /\ InCatalog(Value(last_call.backend))

\* the lines of a text: its tokens between line breaks
RECURSIVE SplitLines(_)
SplitLines(text) ==
    IF \A i \in 1..Len(text) : text[i] # "\n" THEN <<text>>
    ELSE LET k == CHOOSE i \in 1..Len(text) :
                    text[i] = "\n" /\ \A j \in 1..(i - 1) : text[j] # "\n"
         IN  <<SubSeq(text, 1, k - 1)>> \o SplitLines(SubSeq(text, k + 1, Len(text)))

\* ------------------------------------------------------------------ C21
\* C21: when the backend returns an empty result set, the text the content
\* search tool returns names the course filter whenever one was given and
\* the lesson number whenever one was given, lesson 0 included.
C21_EmptyResultNamesEveryFilter ==
    (SearchInvoked /\ last_call.backend = EmptyResults) =>
        /\ last_call.args.course_name # None =>
            Contains(last_call.ret, Value(last_call.args.course_name))
        /\ last_call.args.lesson_number # None =>
            Contains(last_call.ret, NumStr(Value(last_call.args.lesson_number)))

\* ------------------------------------------------------------------ C22
\* C22: an execute of the content search tool that returns passages stores
\* one citation per passage, in passage order; the title is the course
\* title, followed by " - Lesson <n>" when the passage has a lesson number
\* (0 included); the citation has a url exactly when the passage has a
\* lesson number and a known course title and the lesson-link lookup
\* returns a link, and the url is that link.
CitationOfPassage(citation, meta) ==
    LET course_title == CourseTitleOf(meta)
        link == IF meta.lesson_number # None
                THEN get_lesson_link(course_title, Value(meta.lesson_number))
                ELSE None
        linked == /\ meta.lesson_number # None
                  /\ meta.course_title # None
                  /\ link # None
    IN
    /\ citation.title[1] = course_title
    /\ IF meta.lesson_number # None
       THEN Tail(citation.title) = <<" - Lesson ", NumStr(Value(meta.lesson_number))>>
       ELSE Len(citation.title) = 1
    /\ ("url" \in DOMAIN citation) <=> linked
    /\ linked => citation.url = Value(link)

C22_OneCitationPerPassage ==
    (SearchInvoked /\ last_call.backend.error = None
                   /\ last_call.backend.documents # <<>>) =>
        LET stored == StoredBy(Value(last_call.invoked))
            meta   == last_call.backend.metadata
        IN
        /\ Len(stored) = Len(last_call.backend.documents)
        /\ \A i \in 1..Len(stored) : CitationOfPassage(stored[i], meta[i])

C22_Witness ==
    /\ SearchInvoked
    /\ last_call.backend = MixedResults
    /\ Len(StoredBy(Value(last_call.invoked))) = 3
    /\ "url" \notin DOMAIN StoredBy(Value(last_call.invoked))[2]

\* ------------------------------------------------------------------ C23
\* C23: an execute of the outline tool with a title the backend does not
\* resolve returns a text that names every known course title, and it does
\* not fetch the course metadata.
C23_UnresolvedListsTitles ==
    (OutlineInvoked /\ last_call.backend = None) =>
        /\ \A i \in 1..Len(get_existing_course_titles) :
            Contains(last_call.ret, get_existing_course_titles[i])
        /\ Contains(last_call.ret, last_call.args.course_title)
        /\ ~Contains(last_call.calls, "get_all_courses_metadata")
        /\ last_recorded = None

C23_Witness ==
    /\ OutlineInvoked
    /\ last_call.backend = None
    /\ Contains(last_call.ret, "Advanced")
    /\ StoredBy("outline_1") # <<>>

\* ------------------------------------------------------------------ C24
\* C24: after every execute of the outline tool that renders an outline the
\* tool's stored citation list holds exactly one record; its title is
\* "<title> - Course Outline" and it has a url, the course link, exactly
\* when the course has a link, whatever was stored before.
C24_OneOutlineCitation ==
    OutlineRendered =>
        LET course == CourseData(Value(last_call.backend))
            stored == StoredBy("outline_1")
        IN
        /\ Len(stored) = 1
        /\ stored[1].title = <<course.title, " - Course Outline">>
        /\ ("url" \in DOMAIN stored[1]) <=> course.course_link # None
        /\ course.course_link # None => stored[1].url = Value(course.course_link)

C24_Witness ==
    /\ OutlineRendered
    /\ Value(last_call.backend) = "Advanced"
    /\ "url" \notin DOMAIN StoredBy("outline_1")[1]

\* ------------------------------------------------------------------ C25
\* the number of lines the claim gives for the outline of a course
ClaimedLines(course) ==
    LET n == Len(course.lessons) IN
    1 + (IF course.instructor # "" THEN 1 ELSE 0)
      + (IF course.course_link # None THEN 1 ELSE 0)
      + (IF n > 0 THEN 1 + n ELSE 1)

\* C25 as stated: the rendered outline has exactly 1 + (1 if instructor)
\* + (1 if link) + 1 + lessons lines, or + 1 line for "no lessons".
C25_Original ==
    OutlineRendered =>
        Len(SplitLines(last_call.ret))
            = ClaimedLines(CourseData(Value(last_call.backend)))

\* C25, amended: the rendered outline has that many lines that are not
\* empty, and one empty line more, which stands before the lesson-count
\* header or the "no lessons" line; the lesson lines follow the header, one
\* per lesson in catalog order.
C25_LinesOfOutline ==
    OutlineRendered =>
        LET course == CourseData(Value(last_call.backend))
            lines  == SplitLines(last_call.ret)
            n      == Len(course.lessons)
            head   == ClaimedLines(course) - (IF n > 0 THEN 1 + n ELSE 1)
        IN
        /\ Len(lines) = ClaimedLines(course) + 1
        /\ lines[1] = <<"**", course.title, "**">>
        /\ \A k \in 1..Len(lines) : (lines[k] = <<>>) <=> (k = head + 1)
        /\ course.instructor # "" => lines[2] = <<"Instructor: ", course.instructor>>
        /\ course.course_link # None =>
            lines[head] = <<"Course Link: ", Value(course.course_link)>>
        /\ IF n > 0
           THEN /\ lines[head + 2] = <<"Lessons (", NumStr(n), " total):">>
                /\ \A k \in 1..n :
                    lines[head + 2 + k]
                        = <<"  ", NumStr(course.lessons[k].lesson_number), ". ",
                            course.lessons[k].lesson_title>>
           ELSE lines[head + 2] = <<"No lessons found for this course.">>

C25_Witness ==
    /\ OutlineRendered
    /\ Value(last_call.backend) = "Intro"
    /\ Len(SplitLines(last_call.ret)) = 7

\* ---------------------------------------------------------------------------
\* The parameters of the model-service requests
\* ---------------------------------------------------------------------------

\* the request r has the field f
HasField(r, f) == f \in DOMAIN r

\* C29: in every round of a generate() call the request carries the tool
\* declarations together with the automatic tool choice if and only if
\* declarations were passed to generate(); when none were passed, no
\* request of the call has a tools field or a tool_choice field.
C29_ToolsCarriedIffSupplied ==
    \A i \in 1..Len(api_calls) :
        IF tools # None
        THEN /\ HasField(api_calls[i], "tools")
             /\ api_calls[i].tools = Value(tools)
             /\ HasField(api_calls[i], "tool_choice")
             /\ api_calls[i].tool_choice = [type |-> "auto"]
        ELSE /\ ~HasField(api_calls[i], "tools")
             /\ ~HasField(api_calls[i], "tool_choice")

\* two rounds were requested by a call that was given no declarations
C29_Witness ==
    /\ tools = None
    /\ Len(api_calls) = 2
    /\ ~HasField(api_calls[2], "tools")

\* ---------------------------------------------------------------------------
\* A query answered with the ToolManager of the application: generate_response
\* with the default budget, the declarations, a ToolManager holding the
\* content search tool and the outline tool, and then a read of the citations
\* ---------------------------------------------------------------------------

\* the ToolManager of the application: both tools registered, no citations
ApplicationManager ==
    [manager |-> Some(RealManager), registered |-> <<"search_1", "outline_1">>,
     sources |-> NoSources]

\* the same after an earlier request whose outline citation is still stored
ApplicationManagerUsed ==
    [ApplicationManager EXCEPT
        !.sources = [NoSources EXCEPT !["outline_1"] = IntroOutlineSources]]

\* generate_response called with the declarations, the ToolManager and any
\* conversation_history, and without max_rounds
ScenarioEntry ==
    \E h \in Histories :
    \E m \in {ApplicationManager, ApplicationManagerUsed} :
        Enter(None, h, Some(SampleTools), m)

\* tool_manager.get_last_sources() called once generate_response returned
LatestCitations ==
    /\ pc = "done"
    /\ pc' = "read"
    /\ last_call' = [op |-> "get_last_sources",
                     ret |-> get_last_sources(manager_tools, last_sources)]
    /\ UNCHANGED <<manager_tools, last_sources, last_recorded, reg_log, cleared>>
    /\ UNCHANGED sysvars
    /\ UNCHANGED concvars
    /\ UNCHANGED <<max_rounds_arg, max_rounds, tools, tool_manager, messages,
                   current_round, response, tool_used, block_idx, tool_results,
                   result, api_calls, exec_log>>

NextScenario ==
    \/ ScenarioEntry
    \/ ConversationRound
    \/ ApiFailure
    \/ ExecuteToolBlock
    \/ ToolsDone
    \/ LatestCitations

ScenarioSpec == Init /\ [][NextScenario]_vars

\* the system content holds the heading
HasHeading(content) == Contains(content, HistoryHeading)

\* the system content holds the heading and, after it, the text verbatim
HasHistorySection(content, text) ==
    \E k \in 1..Len(content) :
        /\ content[k] = HistoryHeading
        /\ SubSeq(content, k + 1, Len(content)) = text

\* every request of the call carries the system content built at entry
SameSystemEveryRound ==
    \A i \in 1..Len(api_calls) :
        /\ api_calls[i].system = system_content
        /\ api_calls[i].system = api_calls[1].system

\* C30 as stated: the same system instructions go with every round, and they
\* hold the history text under the heading exactly when a history was passed.
C30_Original ==
    /\ SameSystemEveryRound
    /\ \A i \in 1..Len(api_calls) :
        /\ HasHeading(api_calls[i].system) <=> conversation_history # None
        /\ conversation_history # None =>
            HasHistorySection(api_calls[i].system, Value(conversation_history))

\* C30: the system instructions are assembled once per generate() call and
\* the identical value is sent with every round of the call; they hold the
\* history text verbatim under the "Previous conversation:" heading exactly
\* when a history that is not the empty text was passed.
C30_SystemContentOncePerCall ==
    /\ SameSystemEveryRound
    /\ \A i \in 1..Len(api_calls) :
        LET supplied == /\ conversation_history # None
                        /\ Value(conversation_history) # <<>>
        IN
        /\ HasHeading(api_calls[i].system) <=> supplied
        /\ supplied =>
            HasHistorySection(api_calls[i].system, Value(conversation_history))

\* two rounds of a call that was given the history of the tests
C30_Witness ==
    /\ Len(api_calls) = 2
    /\ conversation_history = Some(SampleHistory)
    /\ HasHistorySection(api_calls[2].system, SampleHistory)
    /\ api_calls[2].system = api_calls[1].system

\* the text the content search tool returns for the one passage of the
\* course Intro, lesson 1
IntroPassageText ==
    <<"[", "Intro", " - Lesson ", "1", "]", "\n", "A variable stores a value.">>

\* the call went through two rounds: a response that only requests one tool
\* use, answered by the content search tool with the passage of Intro,
\* lesson 1, and then a response that is one text block with visible text
TwoRoundScenario ==
    /\ Produced = 2
    /\ ToolUseOnly(ResponseContent(1))
    /\ Len(Requests(ResponseContent(1))) = 1
    /\ Len(exec_log) >= 1
    /\ exec_log[1].outcome = [kind |-> "return", text |-> IntroPassageText]
    /\ Len(ResponseContent(2)) = 1
    /\ IsText(ResponseContent(2)[1])
    /\ NonBlank(ResponseContent(2)[1].text)

\* C26: with budget 2, when round 1 is a tool-use-only request for the
\* content search tool that returns one passage of course Intro, lesson 1,
\* and round 2 is plain text, generate() makes 2 model-service calls and 1
\* tool execution and returns the round-2 text, and the citations read
\* afterwards are exactly the one record titled "Intro - Lesson 1" with the
\* lesson link of the lookup.
C26_EndToEndScenario ==
    (pc \in {"done", "read"} /\ TwoRoundScenario) =>
        /\ max_rounds = 2
        /\ Len(api_calls) = 2
        /\ Len(exec_log) = 1
        /\ result = ResponseContent(2)[1].text
        /\ pc = "read" =>
            /\ last_call.op = "get_last_sources"
            /\ last_call.ret
                = << [title |-> <<"Intro", " - Lesson ", "1">>,
                      url |-> "https://example.com/intro/1"] >>

C26_Witness ==
    /\ pc = "read"
    /\ TwoRoundScenario
    /\ result = <<"a">>
    /\ Len(last_call.ret) = 1

\* ---------------------------------------------------------------------------
\* Two requests at a time: each runs generate_response on the one AIGenerator,
\* then reads the citations and resets them. The locals of generate_response
\* are per invocation; the tools' last_sources are attributes of the tool
\* objects. The model service answers every request (a failing call is the
\* case of C11).
\* ---------------------------------------------------------------------------

ConcurrentInit ==
    /\ InitOne
    /\ sharing \in SharingModes
    /\ lock = 0
    /\ frames = [p \in Calls |-> IdleFrame]

\* the max_rounds arguments of the concurrent invocations
CallBudgets == {1, DefaultMaxRounds}

\* the query of request p and what the search finds for it
QueryOf(p) == IF p = 1 THEN "What is a variable?" ELSE "What are types?"

ResultsOf(p) == IF p = 1 THEN IntroResults ELSE MixedResults

AnswerOf(p) == IF p = 1 THEN <<"A variable stores a value.">> ELSE <<"Types.">>

\* the responses of the model service to the request of invocation p in
\* round r: one tool_use block, or one text block
CallResponses(p, r) ==
    { [stop_reason |-> "tool_use",
       content |-> << [type |-> "tool_use", name |-> "search_course_content",
                       input |-> [query |-> QueryOf(p)],
                       id |-> <<"call", p, r>>] >>],
      [stop_reason |-> "end_turn",
       content |-> << [type |-> "text", text |-> AnswerOf(p)] >>] }

\* the content search tool object of request p's ToolManager
SearchToolOf(p) ==
    IF sharing = "own" /\ p = 2 THEN "search_2" ELSE "search_1"

\* the ToolManager that request p uses
RegistryOf(p) == RegisterAll(<<SearchToolOf(p)>>)

\* a message dict; owner names the invocation it was made for
Turn(p, role, content) == [role |-> role, content |-> content, owner |-> p]

\* messages kept in one list of the AIGenerator instead of a local
AppendTurnShared(fr, p, turn) ==
    [q \in DOMAIN fr |-> [fr[q] EXCEPT !.messages = Append(@, turn)]]

\* messages.append(turn) in invocation p
AppendTurn(fr, p, turn) ==
    [fr EXCEPT ![p].messages = Append(@, turn)]

\* the callers' lock lets request p proceed
MayRun(p) == sharing = "serialized" => lock \in {0, p}

\* request p enters generate_response
CEnter(p) ==
    /\ frames[p].pc = "idle"
    /\ sharing = "serialized" => lock = 0
    /\ \E b \in CallBudgets :
        frames' = [frames EXCEPT ![p] =
                     [IdleFrame EXCEPT !.pc = "loop", !.max_rounds = b,
                                       !.messages = <<Turn(p, "user", QueryOf(p))>>]]
    /\ lock' = (IF sharing = "serialized" THEN p ELSE lock)
    /\ UNCHANGED <<sharing>>
    /\ UNCHANGED genvars
    /\ UNCHANGED regvars

\* one pass of the loop body of invocation p up to the tool execution
CConversationRound(p) ==
    /\ frames[p].pc = "loop"
    /\ frames[p].current_round < frames[p].max_rounds
    /\ MayRun(p)
    /\ \E resp \in CallResponses(p, frames[p].current_round + 1) :
        LET round == NextRound(frames[p].current_round)
            go    == _should_continue_rounds(resp, round, frames[p].max_rounds)
            f     == [frames[p] EXCEPT
                        !.current_round = round,
                        !.calls = @ + 1,
                        !.response = resp,
                        !.pc = IF ~go THEN "done"
                               ELSE IF resp.stop_reason = "tool_use" THEN "tools"
                               ELSE "loop",
                        !.result = IF ~go THEN _extract_final_response(resp) ELSE @,
                        !.block_idx = IF go THEN 1 ELSE @,
                        !.tool_results = IF go THEN <<>> ELSE @]
        IN  frames' = AppendTurn([frames EXCEPT ![p] = f], p,
                                 Turn(p, "assistant", resp.content))
    /\ UNCHANGED <<sharing, lock>>
    /\ UNCHANGED genvars
    /\ UNCHANGED regvars

\* one iteration of the loop of _execute_tools in invocation p
CExecuteToolBlock(p) ==
    /\ frames[p].pc = "tools"
    /\ frames[p].block_idx <= Len(frames[p].response.content)
    /\ MayRun(p)
    /\ LET block == frames[p].response.content[frames[p].block_idx] IN
       IF block.type = "tool_use"
       THEN LET call == execute_tool(RegistryOf(p), block.name,
                                     KwArgs(block.input), ResultsOf(p))
                outcome == [kind |-> "return", text |-> call.ret]
            IN
            /\ frames' = [frames EXCEPT
                   ![p].tool_results = Append(@, ToolResult(block, outcome)),
                   ![p].block_idx = @ + 1,
                   ![p].own = IF call.stored # None THEN Value(call.stored) ELSE @]
            /\ last_sources' = SourcesAfter(last_sources, call)
       ELSE /\ frames' = [frames EXCEPT ![p].block_idx = @ + 1]
            /\ last_sources' = last_sources
    /\ UNCHANGED <<sharing, lock>>
    /\ UNCHANGED genvars
    /\ UNCHANGED <<manager_tools, last_call, last_recorded, reg_log, cleared>>

\* _execute_tools of invocation p returns and its results are appended
CToolsDone(p) ==
    /\ frames[p].pc = "tools"
    /\ frames[p].block_idx > Len(frames[p].response.content)
    /\ MayRun(p)
    /\ LET f == [frames EXCEPT ![p].pc = "loop"] IN
       frames' = IF frames[p].tool_results # <<>>
                 THEN AppendTurn(f, p, Turn(p, "user", frames[p].tool_results))
                 ELSE f
    /\ UNCHANGED <<sharing, lock>>
    /\ UNCHANGED genvars
    /\ UNCHANGED regvars

\* request p reads the citations: get_last_sources of its ToolManager
CLatestCitations(p) ==
    /\ frames[p].pc = "done"
    /\ MayRun(p)
    /\ frames' = [frames EXCEPT
           ![p].seen = Some(get_last_sources(RegistryOf(p), last_sources)),
           ![p].pc = "read"]
    /\ UNCHANGED <<sharing, lock>>
    /\ UNCHANGED genvars
    /\ UNCHANGED regvars

\* request p resets the citations: reset_sources of its ToolManager; the
\* request is over
CClearCitations(p) ==
    /\ frames[p].pc = "read"
    /\ MayRun(p)
    /\ last_sources' = reset_sources(RegistryOf(p), last_sources)
    /\ frames' = [frames EXCEPT ![p].pc = "finished"]
    /\ lock' = (IF lock = p THEN 0 ELSE lock)
    /\ UNCHANGED <<sharing>>
    /\ UNCHANGED genvars
    /\ UNCHANGED <<manager_tools, last_call, last_recorded, reg_log, cleared>>

NextConcurrent ==
    \E p \in Calls :
        \/ CEnter(p)
        \/ CConversationRound(p)
        \/ CExecuteToolBlock(p)
        \/ CToolsDone(p)
        \/ CLatestCitations(p)
        \/ CClearCitations(p)

ConcurrentSpec == ConcurrentInit /\ [][NextConcurrent]_vars

\* the other invocation
Other(p) == 3 - p

\* C27: round state is owned by a single generate() invocation: under any
\* interleaving of two concurrent generate() calls on the same engine,
\* neither call's turn sequence ever holds a turn produced for the other
\* call, and each call's count of model calls (and its round index) is
\* bounded by its own budget.
C27_RoundStateOwned ==
    \A p \in Calls :
        /\ \A k \in 1..Len(frames[p].messages) : frames[p].messages[k].owner = p
        /\ frames[p].calls <= frames[p].max_rounds
        /\ frames[p].current_round = frames[p].calls

\* both invocations are in their loops at once, with different budgets, and
\* the one with the smaller budget has used it while the other goes on
C27_Witness ==
    /\ frames[1].max_rounds = 1
    /\ frames[2].max_rounds = 2
    /\ frames[1].calls = 1
    /\ frames[2].calls = 2
    /\ frames[1].pc = "done"
    /\ Len(frames[2].messages) = 4
    /\ sharing = "shared"

\* request p has read citations that are not the ones its own tool
\* executions stored: another request's, or none although it stored some
WrongRead(p) ==
    /\ frames[p].seen # None
    /\ Value(frames[p].seen) # frames[p].own

\* request p has read the citations that the other request's execution stored
CrossRead(p) ==
    /\ frames[p].seen # None
    /\ Value(frames[p].seen) # <<>>
    /\ Value(frames[p].seen) = frames[Other(p)].own
    /\ Value(frames[p].seen) # frames[p].own

\* request p has read no citations although its own execution stored some
LostRead(p) ==
    /\ frames[p].seen = Some(<<>>)
    /\ frames[p].own # <<>>

C37_BudgetBelowOneIsAnError ==
    (pc # "idle" /\ max_rounds < 1) =>
        /\ api_calls = <<>>
        /\ exec_log = <<>>
        /\ Len(messages) = 1
        /\ result = NotReturned
        /\ pc \in {"loop", "error"}

\* a call with a negative budget has ended with the error
C37_Witness ==
    /\ pc = "error"
    /\ max_rounds_arg = Some(-1)
    /\ api_calls = <<>>
    /\ result = NotReturned

\* ---------------------------------------------------------------------------
\* The turn sequence sent with each round
\* ---------------------------------------------------------------------------

\* s is the beginning of t
IsPrefix(s, t) == Len(s) <= Len(t) /\ SubSeq(t, 1, Len(s)) = s

\* the turns start with the user turn of the query and alternate user and
\* assistant turns
Alternates(msgs) ==
    /\ Len(msgs) >= 1
    /\ msgs[1] = [role |-> "user", content |-> Query]
    /\ \A i \in 1..Len(msgs) :
        msgs[i].role = (IF i % 2 = 1 THEN "user" ELSE "assistant")

\* C35: the turn sequence of a generate() call starts with one user turn
\* holding the query, is append-only (each round's input extends the input
\* of the round before), and strictly alternates user and assistant turns,
\* so the k-th model-service call receives exactly 2k-1 turns, the last of
\* them a user turn.
C35_TurnsAlternate ==
    \A k \in 1..Len(api_calls) :
        LET msgs == api_calls[k].messages IN
        /\ Alternates(msgs)
        /\ Len(msgs) = 2 * k - 1
        /\ msgs[Len(msgs)].role = "user"
        /\ k > 1 => IsPrefix(api_calls[k - 1].messages, msgs)
        /\ IsPrefix(msgs, messages)

\* ---------------------------------------------------------------------------
\* Several tool-invocation-requests in one response
\* ---------------------------------------------------------------------------

\* the executions of round r, in the order in which they were made
RoundExecs(r) ==
    LET OfRound(e) == e.round = r IN SelectSeq(exec_log, OfRound)

\* the tool-result that stands for the execution e of request q
ResultOfExec(q, e) ==
    [type |-> "tool_result",
     tool_use_id |-> q.id,
     content |-> IF e.outcome.kind = "raise"
                 THEN <<"Tool execution error: ">> \o e.outcome.text
                 ELSE e.outcome.text]

\* the requests of round r are being executed, or have been
ExecutingRound(r) == tool_manager # None /\ pc = "tools" /\ current_round = r

ExecutedRound(r) ==
    /\ tool_manager # None
    /\ ~ExecutingRound(r)
    /\ Len(RoundExecs(r)) > 0

\* C32: when the requests of a tool-use-only response are executed, they are
\* executed one at a time in request order; an execution that fails is
\* turned into the result of its own request and the requests after it are
\* still executed; the one user turn appended afterwards holds exactly one
\* result per request, in request order.
C32_EveryRequestExecutedInOrder ==
    \A r \in 1..Produced :
        LET reqs == Requests(ResponseContent(r))
            ex   == RoundExecs(r)
        IN
        /\ Len(ex) <= Len(reqs)
        /\ \A i \in 1..Len(ex) :
            /\ ex[i].id = reqs[i].id
            /\ ex[i].input = reqs[i].input
            /\ ex[i].name = reqs[i].name
        /\ ExecutingRound(r) =>
            /\ Len(tool_results) = Len(ex)
            /\ \A i \in 1..Len(ex) : tool_results[i] = ResultOfExec(reqs[i], ex[i])
        /\ ExecutedRound(r) =>
            /\ ToolUseOnly(ResponseContent(r))
            /\ Len(ex) = Len(reqs)
            /\ Len(messages) >= 2 * r + 1
            /\ messages[2 * r] = [role |-> "assistant", content |-> ResponseContent(r)]
            /\ messages[2 * r + 1].role = "user"
            /\ Len(messages[2 * r + 1].content) = Len(reqs)
            /\ \A i \in 1..Len(reqs) :
                messages[2 * r + 1].content[i] = ResultOfExec(reqs[i], ex[i])
            /\ Len(messages) > 2 * r + 1 => messages[2 * r + 2].role = "assistant"

\* a response carried two requests; the first execution failed, the second
\* returned, and both results are in the appended turn
C32_Witness ==
    /\ ExecutedRound(1)
    /\ Len(Requests(ResponseContent(1))) = 2
    /\ RoundExecs(1)[1].outcome.kind = "raise"
    /\ RoundExecs(1)[2].outcome.kind = "return"
    /\ Len(messages[3].content) = 2

\* ---------------------------------------------------------------------------
\* Termination
\* ---------------------------------------------------------------------------

\* generate_response has returned a text, or the failure of a model-service
\* call has left it
Terminated ==
    \/ pc = "done" /\ result # NotReturned
    \/ pc = "failed"

\* C34: provided every model-service call and every tool execution returns
\* (normally or with a failure), each generate() invocation with a budget
\* N >= 1 eventually terminates, whatever text, tool-use and mixed responses
\* the model produces, by returning an answer text or by propagating the
\* failure of a model-service call.
C34_EventuallyTerminates ==
    (pc = "loop" /\ max_rounds >= 1) ~> Terminated

\* an invocation with budget 2 has terminated after two rounds and two tool
\* executions
C34_Witness ==
    /\ Terminated
    /\ max_rounds = 2
    /\ Len(api_calls) = 2
    /\ Len(exec_log) = 2

\* ---------------------------------------------------------------------------
\* The stored citation list over several executes of one tool
\* ---------------------------------------------------------------------------

\* the text the content search tool returns for the three passages of
\* MixedResults
MixedPassageText ==
    <<"[", "Intro", " - Lesson ", "0", "]", "\n", "Welcome.", "\n\n",
      "[", "unknown", " - Lesson ", "2", "]", "\n", "More.", "\n\n",
      "[", "Advanced", "]", "\n", "Types.">>

\* the citations of the passages that a returned text shows
CitationsOfText(text) ==
    IF text = IntroPassageText
    THEN << [title |-> <<"Intro", " - Lesson ", "1">>,
             url |-> "https://example.com/intro/1"] >>
    ELSE << [title |-> <<"Intro", " - Lesson ", "0">>],
            [title |-> <<"unknown", " - Lesson ", "2">>],
            [title |-> <<"Advanced">>] >>

\* the latest execute returned passages, and so recorded citations
LatestExecuteRecorded ==
    /\ exec_log # <<>>
    /\ exec_log[Len(exec_log)].outcome.text \in {IntroPassageText, MixedPassageText}

\* C33: a tool's stored citation list is a last-call-wins cache, not a
\* history: after any sequence of executes of the content search tool,
\* whenever the latest execute recorded citations the stored list is exactly
\* the list of that execute's records, with none of an earlier execute.
C33_LastCallWins ==
    LatestExecuteRecorded =>
        /\ last_sources["search_1"]
            = CitationsOfText(exec_log[Len(exec_log)].outcome.text)
        /\ last_recorded = Some(last_sources["search_1"])

\* an execute that recorded one citation was followed by one that recorded
\* three: the three are stored
C33_Witness ==
    /\ Len(exec_log) = 2
    /\ exec_log[1].outcome.text = IntroPassageText
    /\ exec_log[2].outcome.text = MixedPassageText
    /\ Len(last_sources["search_1"]) = 3

\* ---------------------------------------------------------------------------
\* What generate_response leaves alone
\* ---------------------------------------------------------------------------

\* the citation that an outline of the course Intro stores
IntroOutlineCitation ==
    << [title |-> <<"Intro", " - Course Outline">>,
        url |-> "https://example.com/intro"] >>

\* the step is a tool execution that recorded citations
RecordingExecution ==
    /\ Len(exec_log') = Len(exec_log) + 1
    /\ last_call'.op = "execute_tool"
    /\ last_call'.invoked # None
    /\ last_recorded' # None
    /\ \A t \in DOMAIN last_sources :
        t # Value(last_call'.invoked) => last_sources'[t] = last_sources[t]

\* C36: generate() never resets citations and never changes the registry's
\* name-to-tool map: while it runs, the stored citations change only in a
\* tool execution that records citations, so after a generate() that
\* executed no tool the citations read from the registry are the ones that
\* were stored before the call.
C36_GenerateLeavesRegistryAlone ==
    [][ pc # "idle" =>
            /\ manager_tools' = manager_tools
            /\ reg_log' = reg_log
            /\ last_sources' # last_sources => RecordingExecution
            /\ (last_call'.op = "get_last_sources" /\ exec_log' = <<>>) =>
                /\ last_sources'["search_1"] = <<>>
                /\ last_call'.ret = last_sources'["outline_1"]
                /\ last_call'.ret \in {<<>>, IntroOutlineCitation} ]_vars

\* a call entered with the outline citation stored has returned without
\* executing a tool, and the citations read are that citation
C36_Witness ==
    /\ pc = "read"
    /\ exec_log = <<>>
    /\ Len(api_calls) = 1
    /\ last_call.ret = IntroOutlineCitation

\* ---------------------------------------------------------------------------
\* The budget stated in the system instructions
\* ---------------------------------------------------------------------------

\* the system content states the budget n in the clause of the protocol
StatesBudget(content, n) ==
    \E k \in 1..(Len(content) - 2) :
        /\ content[k] = "- You can make up to "
        /\ content[k + 1] = NumStr(n)
        /\ content[k + 2] = " tool calls across separate rounds"

\* the number of budget clauses in the system content
BudgetClauses(content) ==
    Cardinality({ k \in 1..Len(content) : content[k] = "- You can make up to " })

====
